---------------------------- MODULE Spec2Model ----------------------------
(***************************************************************************)
(* GraphForge hub synchronisation engine (Obsidian plugin).                *)
(*                                                                         *)
(* The vault is a tree of folders (containers) and markdown files.  The    *)
(* engine keeps one hub note per folder, named <folder><suffix> or         *)
(* <folder><suffix><n>, and one leading hub link in every note.            *)
(*                                                                         *)
(* Names, suffixes and file basenames are sequences of one-character       *)
(* strings, so that concatenation and the regular expressions of the       *)
(* source (pathRules, linksInNotes) are computed, not assumed.             *)
(* A note's content is the sequence of its lines (content.split("\n")).    *)
(***************************************************************************)
EXTENDS Integers, Sequences, FiniteSets, TLC

(***************************************************************************)
(* Bounds of the model.                                                    *)
(***************************************************************************)
\* folder slots of the name-resolution specification
MaxFolders == 3
\* polls of waitForNumberedHub before it gives up (WAIT_FOR_HUB_ATTEMPTS, 60 in
\* constants.ts, scaled down: the polls of a wait differ only in what the other
\* tasks do between them)
MaxWaitAttempts == 2

VARIABLES
    folders,    \* folder id -> [alive, name, parent, ctime]; parent 0 is the vault root
    files,      \* file id -> [state, folder, base, content]; folder 0 is the vault root
    listing,    \* the order in which vault.getAllFolders() lists the folder ids
    settings,   \* the plugin's HubSettings (in memory)
    saved,      \* the settings last persisted by saveSettings()
    locks,      \* writeLock's map: path -> time of the last setWriteLock
    now,        \* Date.now()
    tasks,      \* task id -> the handler or command in flight, with its continuation
    log,        \* what the last step did: [actor, kind, writes]
    build,      \* what the buildRefreshHubNotes linked with the handlers takes: the
                \* "App", as in hubContent.ts, or the "Vault" that vaultEvents.ts passes
    probe       \* results of the operation under test

vars == <<folders, files, listing, settings, saved, locks, now, tasks, log, build, probe>>

(***************************************************************************)
(* Characters and names.                                                   *)
(***************************************************************************)
DigitChars == <<"0", "1", "2", "3", "4", "5", "6", "7", "8", "9">>

Digits == {DigitChars[i] : i \in 1..10}

\* String(index) of getNumberedHubName
RECURSIVE ToStr(_)
ToStr(n) ==
    IF n < 10 THEN <<DigitChars[n + 1]>>
    ELSE ToStr(n \div 10) \o <<DigitChars[(n % 10) + 1]>>

\* \d+ : a non-empty run of digits
IsDigits(s) == Len(s) > 0 /\ \A i \in 1..Len(s) : s[i] \in Digits

HasPrefix(s, p) == Len(s) >= Len(p) /\ SubSeq(s, 1, Len(p)) = p

Tail0(s, n) == SubSeq(s, n + 1, Len(s))

NameX == <<"X">>
NameY == <<"Y">>
\* a name listed in skipFolderNames
NameSkip == <<"T">>
\* a dot-folder
NameDot == <<".", "X">>

(***************************************************************************)
(* pathRules: the path classifier.  A path is the sequence of its segments.*)
(***************************************************************************)
shouldSkipPath(path, options) ==
    \/ path = <<>>
    \/ \E i \in 1..Len(path) :
        \/ path[i] \in options.skipFolderNames
        \/ options.skipDotFolders /\ Len(path[i]) > 0 /\ path[i][1] = "."

isRootFolder(path) == path = <<>>

OrUnderscore(suffix) == IF suffix = <<>> THEN <<"_">> ELSE suffix

getHubNameForFolder(folderName, suffix) == folderName \o OrUnderscore(suffix)

getNumberedHubName(folderName, index, suffix) ==
    folderName \o OrUnderscore(suffix) \o ToStr(index)

\* getNumberedHubPattern(folderName, suffix).test(base): ^folder suffix \d+$
\* mutant: the pattern without \d+$, anything may follow the suffix
NumberedHubPatternTest_AnyTail(folderName, suffix, base) ==
    HasPrefix(base, folderName \o OrUnderscore(suffix))

NumberedHubPatternTest(folderName, suffix, base) ==
    LET p == folderName \o OrUnderscore(suffix)
    IN  HasPrefix(base, p) /\ IsDigits(Tail0(base, Len(p)))

pathSkipFromSettings(s) ==
    [skipFolderNames |-> s.skipFolderNames, skipDotFolders |-> s.skipDotFolders]

(***************************************************************************)
(* The tree.                                                               *)
(***************************************************************************)
FolderIds == DOMAIN folders

\* TFolder.path as its segments, root first
RECURSIVE PathOf(_, _)
PathOf(fs, f) ==
    IF f = 0 THEN <<>> ELSE PathOf(fs, fs[f].parent) \o <<fs[f].name>>

\* no folder is its own ancestor
RECURSIVE ReachesRoot(_, _, _)
ReachesRoot(fs, f, fuel) ==
    IF f = 0 THEN TRUE
    ELSE IF fuel = 0 THEN FALSE
    ELSE ReachesRoot(fs, fs[f].parent, fuel - 1)

WellFormedTree(fs) ==
    /\ \A f \in DOMAIN fs : ReachesRoot(fs, f, Cardinality(DOMAIN fs))
    /\ \A f, g \in DOMAIN fs :
        (f # g /\ fs[f].alive /\ fs[g].alive /\ fs[f].parent = fs[g].parent)
            => fs[f].name # fs[g].name
    /\ \A f \in DOMAIN fs :
        (fs[f].alive /\ fs[f].parent # 0) => fs[fs[f].parent].alive

\* a folder that is in the vault and not excluded
NonExcluded(fs, f, s) == fs[f].alive /\ ~shouldSkipPath(PathOf(fs, f), pathSkipFromSettings(s))

(***************************************************************************)
(* hubForFolder: the hub registry resolver.                                *)
(***************************************************************************)
\* Array.prototype.sort((a, b) => a.ctime - b.ctime): stable, ascending
RECURSIVE InsertByCtime(_, _, _)
InsertByCtime(fs, sorted, f) ==
    IF sorted = <<>> THEN <<f>>
    ELSE IF fs[f].ctime < fs[Head(sorted)].ctime THEN <<f>> \o sorted
    ELSE <<Head(sorted)>> \o InsertByCtime(fs, Tail(sorted), f)

\* mutant: the sort is left out, the storage layer's order decides the ordinals
SortByCtime_Unsorted(fs, s) == s

RECURSIVE SortByCtime(_, _)
SortByCtime(fs, s) ==
    IF s = <<>> THEN <<>>
    ELSE InsertByCtime(fs, SortByCtime(fs, SubSeq(s, 1, Len(s) - 1)), s[Len(s)])

\* vault.getAllFolders(false): the live folders, in the storage layer's order
getAllFolders(fs, order) == SelectSeq(order, LAMBDA f : fs[f].alive)

getFoldersWithSameName(fs, order, folderName, options) ==
    LET all == getAllFolders(fs, order)
        sameName == SelectSeq(all, LAMBDA f :
                        fs[f].name = folderName
                        /\ ~shouldSkipPath(PathOf(fs, f), options))
    IN  SortByCtime(fs, sameName)

\* Array.prototype.findIndex, 1-based; 0 when absent
RECURSIVE FindIndexFrom(_, _, _)
FindIndexFrom(s, x, i) ==
    IF i > Len(s) THEN 0
    ELSE IF s[i] = x THEN i
    ELSE FindIndexFrom(s, x, i + 1)

getExpectedHubNameForFolder(fs, order, f, s) ==
    LET suffix == OrUnderscore(s.hubSuffix)
        sameName == getFoldersWithSameName(fs, order, fs[f].name,
                                           pathSkipFromSettings(s))
        index == FindIndexFrom(sameName, f, 1)
    IN  IF Len(sameName) <= 1 THEN getHubNameForFolder(fs[f].name, suffix)
        ELSE IF index = 0 THEN getHubNameForFolder(fs[f].name, suffix)
        ELSE getNumberedHubName(fs[f].name, index, suffix)

(***************************************************************************)
(* linksInNotes: note content.  A content is the non-empty sequence of its *)
(* lines, content.split("\n"); a line is a record                          *)
(*   ind    - the line starts with white space                             *)
(*   kind   - "blank" (empty or white space only), "sep" (---), "text",    *)
(*            "link" ([[target]], or that in a <span>), "heading" (## ..), *)
(*            "fence", "fenceEnd" (the display_folder_directory block)     *)
(*   target - the wiki link's target                                       *)
(*   span   - the link is wrapped in <span class="graphforge-ob-hide">     *)
(***************************************************************************)
NoTarget == <<>>

Line(ind, kind, target, span) ==
    [ind |-> ind, kind |-> kind, target |-> target, span |-> span]

EmptyLine == Line(FALSE, "blank", NoTarget, FALSE)
SepLine == Line(FALSE, "sep", NoTarget, FALSE)
LinkTo(target) == Line(FALSE, "link", target, FALSE)
SpanLinkTo(target) == Line(FALSE, "link", target, TRUE)

TextLine == Line(FALSE, "text", NoTarget, FALSE)
IndentedLine == Line(TRUE, "text", NoTarget, FALSE)

\* line.trim() === ""
IsBlank(l) == l.kind = "blank"

\* extractWikiLinkTarget: the target, or NoTarget for null
extractWikiLinkTarget(l) == IF l.kind = "link" THEN l.target ELSE NoTarget

\* ^.*suffix\d*$
targetMatchesHubSuffixPattern(target, suffix) ==
    LET sfx == OrUnderscore(suffix)
    IN  \E k \in 0..(Len(target) - Len(sfx)) :
            /\ SubSeq(target, k + 1, k + Len(sfx)) = sfx
            /\ \A i \in (k + Len(sfx) + 1)..Len(target) : target[i] \in Digits

\* isHubLinkLine(line, null, settings): a link to any hub, current or previous suffix
isHubLinkLine(l, s) ==
    LET target == extractWikiLinkTarget(l)
        suffix == OrUnderscore(s.hubSuffix)
        prev == s.previousHubSuffix
    IN  /\ target # NoTarget
        /\ \/ targetMatchesHubSuffixPattern(target, suffix)
           \/ prev # suffix /\ targetMatchesHubSuffixPattern(target, prev)

\* stripLeadingHubLinkLines(lines, null, settings): how many leading lines are
\* blank or hub links
RECURSIVE stripLeadingHubLinkLines(_, _)
stripLeadingHubLinkLines(lines, s) ==
    IF lines = <<>> THEN 0
    ELSE IF IsBlank(Head(lines)) \/ isHubLinkLine(Head(lines), s)
         THEN 1 + stripLeadingHubLinkLines(Tail(lines), s)
    ELSE 0

\* lines.slice(n).join("\n"), as lines again: the empty string is one empty line
SliceJoin(lines, n) == IF n >= Len(lines) THEN <<EmptyLine>> ELSE Tail0(lines, n)

\* how many leading lines are blank
RECURSIVE LeadingBlanks(_)
LeadingBlanks(lines) ==
    IF lines = <<>> THEN 0
    ELSE IF IsBlank(Head(lines)) THEN 1 + LeadingBlanks(Tail(lines))
    ELSE 0

\* rest.replace(/^\s*\n?---\s*\n\s*/, ""): after leading white space a --- line
\* that is not the last line; it goes, with every blank line after it and with
\* the leading white space of the first line that is not blank
StripSeparator(rest) ==
    LET i == LeadingBlanks(rest) + 1
    IN  IF i >= Len(rest) \/ rest[i].kind # "sep" THEN rest
        ELSE LET after == Tail0(rest, i)
                 j == LeadingBlanks(after) + 1
             IN  IF j > Len(after) THEN <<EmptyLine>>
                 ELSE <<[after[j] EXCEPT !.ind = FALSE]>> \o Tail0(after, j)

\* the first line that is a ## heading, 0 when none
RECURSIVE HeadingIndex(_, _)
HeadingIndex(lines, i) ==
    IF i > Len(lines) THEN 0
    ELSE IF lines[i].kind = "heading" THEN i
    ELSE HeadingIndex(lines, i + 1)

RemoveAt(lines, i) == SubSeq(lines, 1, i - 1) \o Tail0(lines, i)

\* mutant: a link under the heading is never removed
updateParentLinkUnderDirectory_KeepsLink(content, parentLink) ==
    LET dirIdx == HeadingIndex(content, 1)
        j == dirIdx + 1 + LeadingBlanks(Tail0(content, dirIdx))
        isLink == j <= Len(content) /\ extractWikiLinkTarget(content[j]) # NoTarget
    IN  IF dirIdx = 0 \/ parentLink = NoTarget THEN content
        ELSE IF isLink THEN [content EXCEPT ![j] = LinkTo(parentLink)]
        ELSE SubSeq(content, 1, j - 1) \o <<LinkTo(parentLink), EmptyLine>>
                \o Tail0(content, j - 1)

\* updateParentLinkUnderDirectory(content, parentLink); parentLink NoTarget is null
updateParentLinkUnderDirectory(content, parentLink) ==
    LET dirIdx == HeadingIndex(content, 1)
        j == dirIdx + 1 + LeadingBlanks(Tail0(content, dirIdx))
        isLink == j <= Len(content) /\ extractWikiLinkTarget(content[j]) # NoTarget
    IN  IF dirIdx = 0 THEN content
        ELSE IF isLink
        THEN IF parentLink # NoTarget
             THEN [content EXCEPT ![j] = LinkTo(parentLink)]
             ELSE LET cut == RemoveAt(content, j)
                  IN  IF j <= Len(cut) /\ IsBlank(cut[j]) THEN RemoveAt(cut, j) ELSE cut
        ELSE IF parentLink # NoTarget
        THEN SubSeq(content, 1, j - 1) \o <<LinkTo(parentLink), EmptyLine>>
                \o Tail0(content, j - 1)
        ELSE content

\* the new leading block of upsertHubLinkInNote: "\n"? link "\n\n" ("---\n\n")?
NewTop(correctLink, s) ==
    IF correctLink = NoTarget THEN <<>>
    ELSE (IF s.removeHiddenBlink THEN <<EmptyLine>> ELSE <<>>)
         \o <<Line(FALSE, "link", correctLink, s.autoHideHubLinks), EmptyLine>>
         \o (IF s.insertSeparatorAfterHubLink THEN <<SepLine, EmptyLine>> ELSE <<>>)

\* the content upsertHubLinkInNote computes for a note, from what it has read and
\* awaited: the correct link, whether the note is a hub note, its parent link
UpsertContent(content, correctLink, hubNote, parentLink, s) ==
    LET afterHub == stripLeadingHubLinkLines(content, s)
        rest0 == SliceJoin(content, afterHub)
        rest1 == IF correctLink = NoTarget THEN StripSeparator(rest0) ELSE rest0
    IN  IF hubNote THEN updateParentLinkUnderDirectory(rest1, parentLink)
        ELSE LET addSeparator == s.insertSeparatorAfterHubLink
                 rest2 == IF correctLink # NoTarget /\ addSeparator
                          THEN StripSeparator(rest1) ELSE rest1
             IN  NewTop(correctLink, s) \o rest2

\* buildHubContent's lines, given the parent's expected hub name (NoTarget: none)
HubContentLines(parentHubName) ==
    <<Line(FALSE, "heading", NoTarget, FALSE), EmptyLine>>
    \o (IF parentHubName # NoTarget THEN <<LinkTo(parentHubName), EmptyLine>> ELSE <<>>)
    \o <<Line(FALSE, "fence", NoTarget, FALSE), Line(FALSE, "fenceEnd", NoTarget, FALSE),
         EmptyLine>>

(***************************************************************************)
(* Settings.                                                               *)
(***************************************************************************)
DefaultSettings ==
    [hubSuffix |-> <<"_">>,
     previousHubSuffix |-> <<"_">>,
     skipFolderNames |-> {NameSkip},
     skipDotFolders |-> TRUE,
     parentLinkForSubfolderHubs |-> TRUE,
     removeHiddenBlink |-> FALSE,
     autoHideHubLinks |-> FALSE,
     insertSeparatorAfterHubLink |-> TRUE,
     realTimeUpdating |-> TRUE,
     autoCreateSuppressedUntilBuildRefresh |-> TRUE]

(***************************************************************************)
(* The world: the vault, the write locks, the settings and the tasks in    *)
(* flight, as one record w, so that a handler's step is a function on it.  *)
(* A file is "free" (its id is not yet used), "live" or "dead" (trashed);  *)
(* a folder's children are listed in the order of their ids.               *)
(***************************************************************************)
World ==
    [folders |-> folders, files |-> files, listing |-> listing,
     settings |-> settings, saved |-> saved, locks |-> locks, now |-> now,
     tasks |-> tasks, log |-> log, build |-> build, thrown |-> FALSE,
     blocked |-> FALSE]

Min(S) == CHOOSE x \in S : \A y \in S : x <= y

\* a set of ids as the sequence of its members, ascending
RECURSIVE SetToSeq(_)
SetToSeq(S) == IF S = {} THEN <<>> ELSE <<Min(S)>> \o SetToSeq(S \ {Min(S)})

Live(w, x) == w.files[x].state \in {"live", "denied"}

\* the storage rejects every change of the file (an I/O error)
Denied(w, x) == w.files[x].state = "denied"

\* TFile.path
FilePath(w, x) == PathOf(w.folders, w.files[x].folder) \o <<w.files[x].base>>

\* the TFile children of a folder
ChildFiles(w, f) == {x \in DOMAIN w.files : Live(w, x) /\ w.files[x].folder = f}

\* the TFolder children of a folder
ChildFolders(w, f) == {g \in DOMAIN w.folders : w.folders[g].alive /\ w.folders[g].parent = f}

\* vault.getFolderByPath: the folder id (0 is the root), -1 when there is none
FolderAt(w, path) ==
    IF path = <<>> THEN 0
    ELSE LET F == {g \in DOMAIN w.folders :
                     w.folders[g].alive /\ PathOf(w.folders, g) = path}
         IN  IF F = {} THEN -1 ELSE Min(F)

\* vault.getFileByPath: the file id, 0 when there is none
FileAt(w, path) ==
    LET F == {x \in DOMAIN w.files : Live(w, x) /\ FilePath(w, x) = path}
    IN  IF F = {} THEN 0 ELSE Min(F)

findHubInFolderWithName(w, f, folderName) ==
    LET suffix == OrUnderscore(w.settings.hubSuffix)
        baseName == getHubNameForFolder(folderName, suffix)
        H == {x \in ChildFiles(w, f) :
                \/ w.files[x].base = baseName
                \/ NumberedHubPatternTest(folderName, suffix, w.files[x].base)}
    IN  IF H = {} THEN 0 ELSE Min(H)

findHubInFolder(w, f) == findHubInFolderWithName(w, f, w.folders[f].name)

Expected(w, f) == getExpectedHubNameForFolder(w.folders, w.listing, f, w.settings)

SkipFolder(w, f) == shouldSkipPath(PathOf(w.folders, f), pathSkipFromSettings(w.settings))

(***************************************************************************)
(* writeLock and the storage operations.  A storage operation that the     *)
(* vault rejects sets w.thrown and changes nothing else.                   *)
(***************************************************************************)
setWriteLock(w, path) ==
    [w EXCEPT !.locks = [p \in (DOMAIN w.locks) \cup {path} |->
                            IF p = path THEN w.now ELSE w.locks[p]]]

Wrote(w, kind) == [w EXCEPT !.log.writes = @ \cup {kind}]

Thrown(w) == [w EXCEPT !.thrown = TRUE]

\* vault.create(path, content)
vaultCreate(w, path, content) ==
    LET dir == FolderAt(w, SubSeq(path, 1, Len(path) - 1))
        free == {x \in DOMAIN w.files : w.files[x].state = "free"}
    IN  IF dir = -1 \/ FileAt(w, path) # 0 THEN Thrown(w)
        ELSE IF free = {} THEN [w EXCEPT !.blocked = TRUE]
        ELSE Wrote([w EXCEPT !.files[Min(free)] =
                        [state |-> "live", folder |-> dir,
                         base |-> path[Len(path)], content |-> content]], "create")

\* vault.rename(file, newPath)
vaultRename(w, x, newPath) ==
    LET dir == FolderAt(w, SubSeq(newPath, 1, Len(newPath) - 1))
    IN  IF ~Live(w, x) \/ Denied(w, x) \/ dir = -1 \/ FileAt(w, newPath) # 0 THEN Thrown(w)
        ELSE Wrote([w EXCEPT !.files[x].folder = dir,
                             !.files[x].base = newPath[Len(newPath)]], "rename")

\* vault.modify(file, content)
vaultModify(w, x, content) ==
    IF ~Live(w, x) \/ Denied(w, x) THEN Thrown(w)
    ELSE Wrote([w EXCEPT !.files[x].content = content], "modify")

\* mutant: the folder of the trashed document goes with it
trashFile_Folder(w, x) ==
    IF ~Live(w, x) \/ Denied(w, x) THEN [w EXCEPT !.thrown = TRUE]
    ELSE [w EXCEPT !.files[x].state = "dead", !.folders[w.files[x].folder].alive = FALSE,
                   !.log.writes = @ \cup {"trash"}]

\* fileManager.trashFile(file)
trashFile(w, x) ==
    IF ~Live(w, x) \/ Denied(w, x) THEN Thrown(w)
    ELSE Wrote([w EXCEPT !.files[x].state = "dead"], "trash")

\* saveSettings(): saveData(this.settings)
saveSettings(w) == Wrote([w EXCEPT !.saved = w.settings], "config")

\* new Notice("Finished. ..."): the summary a command ends with
Notice(w) == [w EXCEPT !.log.notices = @ + 1]

(***************************************************************************)
(* Tasks.  A task is an async call chain: a stack of frames, the callee on *)
(* top.  A frame is the function (op), the await it stands at (pc) and its *)
(* locals.  ret and retc are the value the last callee returned.           *)
(***************************************************************************)
NewFrame(op, f, x, name) ==
    [op |-> op, pc |-> "start", f |-> f, file |-> x, name |-> name, path |-> <<>>,
     list |-> <<>>, i |-> 1, names |-> <<>>, notes |-> <<>>, j |-> 1,
     link |-> NoTarget, content |-> <<>>, flag |-> FALSE]

IdleTask == [kind |-> "idle", stack |-> <<>>, ret |-> 0, retc |-> <<>>]

Top(w, t) == Head(w.tasks[t].stack)

\* the frame on top goes on as fr
SetTop(w, t, fr) == [w EXCEPT !.tasks[t].stack = <<fr>> \o Tail(@)]

\* the frame on top goes on as fr when the callee it now awaits returns
Call(w, t, fr, callee) == [w EXCEPT !.tasks[t].stack = <<callee, fr>> \o Tail(@)]

\* the call on top is replaced by the callee (return await callee)
TailCall(w, t, callee) == [w EXCEPT !.tasks[t].stack = <<callee>> \o Tail(@)]

Return(w, t) == [w EXCEPT !.tasks[t].stack = Tail(@)]

ReturnFile(w, t, x) == [w EXCEPT !.tasks[t].stack = Tail(@), !.tasks[t].ret = x]

ReturnContent(w, t, c) == [w EXCEPT !.tasks[t].stack = Tail(@), !.tasks[t].retc = c]

\* a step's outcome: the world, and whether the task is now suspended at an await
\* of the storage layer or of a timer (y) or goes on at once
Go(w) == [w |-> w, y |-> FALSE]
Yield(w) == [w |-> w, y |-> TRUE]

(***************************************************************************)
(* hubForFolder and hubContent as steps of a task.                         *)
(***************************************************************************)

\* mutant: any hub of the folder will do, whatever its name
StepWait_AnyHub(w, t, fr) ==
    IF fr.i > MaxWaitAttempts \/ findHubInFolder(w, fr.f) # 0
    THEN Go(ReturnFile(w, t, findHubInFolder(w, fr.f)))
    ELSE Yield(SetTop(w, t, [fr EXCEPT !.i = @ + 1]))

\* waitForNumberedHub: one poll; a poll that fails sleeps
\* mutant: the wait rejects when its attempts are used up
StepWait_Rejects(w, t, fr) ==
    IF fr.i > MaxWaitAttempts THEN Go(Thrown(w))
    ELSE LET hub == findHubInFolder(w, fr.f)
         IN  IF hub # 0 /\ w.files[hub].base = Expected(w, fr.f)
             THEN Go(ReturnFile(w, t, hub))
             ELSE Yield(SetTop(w, t, [fr EXCEPT !.i = @ + 1]))

StepWait(w, t, fr) ==
    IF fr.i > MaxWaitAttempts THEN Go(ReturnFile(w, t, 0))
    ELSE LET hub == findHubInFolder(w, fr.f)
         IN  IF hub # 0 /\ w.files[hub].base = Expected(w, fr.f)
             THEN Go(ReturnFile(w, t, hub))
             ELSE Yield(SetTop(w, t, [fr EXCEPT !.i = @ + 1]))

\* buildHubContent
StepBuild(w, t, fr) ==
    LET parent == w.folders[fr.f].parent
    IN  IF fr.pc = "start"
        THEN IF parent # 0 /\ w.settings.parentLinkForSubfolderHubs
             THEN Go(Call(w, t, [fr EXCEPT !.pc = "named", !.f = parent], NewFrame("Wait", parent, 0, <<>>)))
             ELSE Go(ReturnContent(w, t, HubContentLines(NoTarget)))
        ELSE Yield(ReturnContent(w, t, HubContentLines(Expected(w, fr.f))))

\* mutant: the hub is written whether or not its content differs
StepEnsureContent_AlwaysWrites(w, t, fr) ==
    IF fr.pc = "start"
    THEN Go(Call(w, t, [fr EXCEPT !.pc = "built"], NewFrame("Build", fr.f, 0, <<>>)))
    ELSE Yield(Return(vaultModify(setWriteLock(w, FilePath(w, fr.file)),
                                  fr.file, w.tasks[t].retc), t))

\* ensureHubContentUpToDate
StepEnsureContent(w, t, fr) ==
    IF fr.pc = "start"
    THEN Go(Call(w, t, [fr EXCEPT !.pc = "built"], NewFrame("Build", fr.f, 0, <<>>)))
    ELSE LET desired == w.tasks[t].retc
         IN  IF ~Live(w, fr.file) THEN Go(Thrown(w))
             ELSE IF w.files[fr.file].content = desired THEN Yield(Return(w, t))
             ELSE Yield(Return(vaultModify(setWriteLock(w, FilePath(w, fr.file)),
                                           fr.file, desired), t))

\* ensureHubForFolder
StepEnsureHub(w, t, fr) ==
    CASE fr.pc = "start" ->
            Yield(SetTop(w, t, [fr EXCEPT !.pc = "find", !.name = Expected(w, fr.f)]))
      [] fr.pc = "find" ->
            LET hub == findHubInFolder(w, fr.f)
            IN  IF hub # 0 THEN Go(TailCall(w, t, NewFrame("EnsureContent", fr.f, hub, <<>>)))
                ELSE Go(Call(w, t, [fr EXCEPT !.pc = "create"], NewFrame("Build", fr.f, 0, <<>>)))
      [] OTHER ->
            LET path == PathOf(w.folders, fr.f) \o <<fr.name>>
            IN  Yield(Return(vaultCreate(setWriteLock(w, path), path, w.tasks[t].retc), t))

\* mutant: a misnamed hub keeps its name
RenameHub_Skipped(w, hub, folder, expectedName) == w

\* mutant: only the new path is marked as written
RenameHub_NewPathOnly(w, hub, folder, expectedName) ==
    vaultRename(setWriteLock(w, PathOf(w.folders, folder) \o <<expectedName>>), hub,
                PathOf(w.folders, folder) \o <<expectedName>>)

\* the rename of a hub to its expected name, in both branches of
\* assignNumberedHubsForName
RenameHub(w, hub, folder, expectedName) ==
    LET newPath == PathOf(w.folders, folder) \o <<expectedName>>
    IN  vaultRename(setWriteLock(setWriteLock(w, FilePath(w, hub)), newPath), hub, newPath)

\* assignNumberedHubsForName
StepAssign(w, t, fr) ==
    LET suffix == OrUnderscore(w.settings.hubSuffix)
        folder == IF fr.i <= Len(fr.list) THEN fr.list[fr.i] ELSE 0
        next == [fr EXCEPT !.pc = "loop", !.i = @ + 1]
    IN  CASE fr.pc = "start" ->
                Yield(SetTop(w, t, [fr EXCEPT !.pc = "go",
                    !.list = getFoldersWithSameName(w.folders, w.listing, fr.name,
                                                    pathSkipFromSettings(w.settings))]))
          [] fr.pc = "go" /\ Len(fr.list) = 0 -> Go(Return(w, t))
          [] fr.pc = "go" /\ Len(fr.list) = 1 ->
                LET expectedName == getHubNameForFolder(fr.name, suffix)
                    hub == findHubInFolderWithName(w, folder, fr.name)
                IN  IF hub # 0 /\ w.files[hub].base # expectedName
                    THEN Yield(SetTop(RenameHub(w, hub, folder, expectedName), t,
                            [fr EXCEPT !.pc = "single", !.f = folder,
                                !.path = PathOf(w.folders, folder) \o <<expectedName>>]))
                    ELSE Go(Return(w, t))
          [] fr.pc = "single" ->
                LET updated == FileAt(w, fr.path)
                IN  IF updated # 0 THEN Go(TailCall(w, t, NewFrame("EnsureContent", fr.f, updated, <<>>)))
                    ELSE Go(Return(w, t))
          [] fr.pc = "go" /\ Len(fr.list) > 1 -> Go(SetTop(w, t, [fr EXCEPT !.pc = "loop"]))
          [] fr.pc = "loop" /\ folder = 0 -> Go(Return(w, t))
          [] fr.pc = "loop" /\ folder # 0 ->
                LET expectedName == getNumberedHubName(fr.name, fr.i, suffix)
                    hub == findHubInFolder(w, folder)
                IN  IF hub = 0
                    THEN Go(Call(w, t, [fr EXCEPT !.pc = "create"], NewFrame("Build", folder, 0, <<>>)))
                    ELSE IF w.files[hub].base # expectedName
                    THEN Yield(SetTop(RenameHub(w, hub, folder, expectedName), t,
                            [fr EXCEPT !.pc = "renamed",
                                !.path = PathOf(w.folders, folder) \o <<expectedName>>]))
                    ELSE Go(Call(w, t, next, NewFrame("EnsureContent", folder, hub, <<>>)))
          [] fr.pc = "create" ->
                LET path == PathOf(w.folders, folder)
                                \o <<getNumberedHubName(fr.name, fr.i, suffix)>>
                IN  Yield(SetTop(vaultCreate(setWriteLock(w, path), path, w.tasks[t].retc),
                                 t, next))
          [] OTHER ->
                LET updated == FileAt(w, fr.path)
                IN  IF updated # 0 THEN Go(Call(w, t, next, NewFrame("EnsureContent", folder, updated, <<>>)))
                    ELSE Go(SetTop(w, t, next))

\* mutant: no hub of the old suffix is trashed
StepDeleteHubs_None(w, t, fr) == Go(Return(w, t))

\* deleteAllHubFilesWithSuffix: fr.list the folders, fr.j the last child visited
StepDeleteHubs(w, t, fr) ==
    IF fr.pc = "start"
    THEN Go(SetTop(w, t, [fr EXCEPT !.pc = "loop", !.j = 0,
                              !.list = getAllFolders(w.folders, w.listing)]))
    ELSE IF fr.i > Len(fr.list) THEN Go(Return(w, t))
    ELSE LET folder == fr.list[fr.i]
             rest == {x \in ChildFiles(w, folder) : x > fr.j}
             child == Min(rest)
             base == w.files[child].base
         IN  IF SkipFolder(w, folder) \/ rest = {}
             THEN Go(SetTop(w, t, [fr EXCEPT !.i = @ + 1, !.j = 0]))
             ELSE IF \/ base = getHubNameForFolder(w.folders[folder].name, fr.name)
                     \/ NumberedHubPatternTest(w.folders[folder].name, fr.name, base)
             THEN Yield(SetTop(trashFile(setWriteLock(w, FilePath(w, child)), child), t,
                               [fr EXCEPT !.j = child]))
             ELSE Go(SetTop(w, t, [fr EXCEPT !.j = child]))

\* the names that more than one of the listed folders has, in the order of the
\* list: the entries of nameCount with count > 1
RECURSIVE SharedNames(_, _, _, _)
SharedNames(w, list, i, acc) ==
    IF i > Len(list) THEN acc
    ELSE LET name == w.folders[list[i]].name
             counted == {k \in 1..Len(list) :
                            /\ ~SkipFolder(w, list[k])
                            /\ w.folders[list[k]].name = name}
             seen == \E k \in 1..Len(acc) : acc[k] = name
         IN  SharedNames(w, list, i + 1,
                IF ~SkipFolder(w, list[i]) /\ Cardinality(counted) > 1 /\ ~seen
                THEN Append(acc, name) ELSE acc)

\* buildRefreshHubNotes
StepRebuild(w, t, fr) ==
    CASE fr.pc = "start" ->
            IF w.settings.previousHubSuffix # w.settings.hubSuffix
            THEN Go(Call(w, t, [fr EXCEPT !.pc = "list"],
                         NewFrame("DeleteHubs", 0, 0, w.settings.previousHubSuffix)))
            ELSE Go(SetTop(w, t, [fr EXCEPT !.pc = "list"]))
      [] fr.pc = "list" ->
            Go(SetTop(w, t, [fr EXCEPT !.pc = "ensure",
                                 !.list = getAllFolders(w.folders, w.listing)]))
      [] fr.pc = "ensure" /\ fr.i <= Len(fr.list) ->
            IF SkipFolder(w, fr.list[fr.i])
            THEN Go(SetTop(w, t, [fr EXCEPT !.i = @ + 1]))
            ELSE Go(Call(w, t, [fr EXCEPT !.i = @ + 1], NewFrame("EnsureHub", fr.list[fr.i], 0, <<>>)))
      [] fr.pc = "ensure" /\ fr.i > Len(fr.list) ->
            Go(SetTop(w, t, [fr EXCEPT !.pc = "number", !.i = 1,
                                 !.names = SharedNames(w, fr.list, 1, <<>>)]))
      [] OTHER ->
            IF fr.i > Len(fr.names) THEN Go(Return(w, t))
            ELSE Go(Call(w, t, [fr EXCEPT !.i = @ + 1], NewFrame("Assign", 0, 0, fr.names[fr.i])))

(***************************************************************************)
(* linksInNotes and vaultEvents as steps of a task.                        *)
(***************************************************************************)

\* getMarkdownFilesUnderFolder: the notes of the folder, then of its subfolders
RECURSIVE MdFilesUnder(_, _, _)
MdFilesUnder(w, f, fuel) ==
    LET RECURSIVE Sub(_)
        Sub(gs) == IF gs = <<>> \/ fuel = 0 THEN <<>>
                   ELSE MdFilesUnder(w, Head(gs), fuel - 1) \o Sub(Tail(gs))
    IN  SetToSeq(ChildFiles(w, f)) \o Sub(SetToSeq(ChildFolders(w, f)))

getMarkdownFilesUnderFolder(w, f) == MdFilesUnder(w, f, Cardinality(DOMAIN w.folders))

\* vault.getMarkdownFiles()
getMarkdownFiles(w) == SetToSeq({x \in DOMAIN w.files : Live(w, x)})

\* isHubNote, with what the note is now
isHubNote(w, x) ==
    /\ w.files[x].folder # 0
    /\ w.files[x].base = Expected(w, w.files[x].folder)

\* upsertHubLinkInNote: fr.f the note's folder as getCorrectHubLinkForNote took
\* it, fr.link the correct link, fr.content what vault.read returned, fr.flag
\* what isHubNote returned
StepUpsert(w, t, fr) ==
    LET x == fr.file
        folder == w.files[x].folder
        parent == w.folders[folder].parent
        s == w.settings
        write(newContent) ==
            IF newContent = fr.content THEN Go(Return(w, t))
            ELSE Yield(Return(vaultModify(setWriteLock(w, FilePath(w, x)), x, newContent), t))
    IN  CASE fr.pc = "start" ->
                IF folder = 0 \/ SkipFolder(w, folder)
                THEN Go(SetTop(w, t, [fr EXCEPT !.pc = "read", !.link = NoTarget]))
                ELSE Go(Call(w, t, [fr EXCEPT !.pc = "linked", !.f = folder],
                             NewFrame("Wait", folder, 0, <<>>)))
          [] fr.pc = "linked" ->
                IF w.tasks[t].ret = 0
                THEN Go(SetTop(w, t, [fr EXCEPT !.pc = "read", !.link = NoTarget]))
                ELSE Yield(SetTop(w, t, [fr EXCEPT !.pc = "read",
                                             !.link = Expected(w, fr.f)]))
          [] fr.pc = "read" ->
                IF ~Live(w, x) THEN Go(Thrown(w))
                ELSE Yield(SetTop(w, t, [fr EXCEPT !.pc = "write",
                                             !.content = w.files[x].content,
                                             !.flag = isHubNote(w, x)]))
          [] fr.pc = "write" /\ ~fr.flag ->
                write(UpsertContent(fr.content, fr.link, FALSE, NoTarget, s))
          [] fr.pc = "write" /\ fr.flag ->
                IF folder = 0 \/ parent = 0 \/ SkipFolder(w, parent)
                THEN write(UpsertContent(fr.content, fr.link, TRUE, NoTarget, s))
                ELSE Go(Call(w, t, [fr EXCEPT !.pc = "parent", !.f = parent],
                             NewFrame("Wait", parent, 0, <<>>)))
          [] OTHER ->
                write(UpsertContent(fr.content, fr.link, TRUE, Expected(w, fr.f), s))

\* refreshLinksInNotesForFolderName
StepRefreshLinks(w, t, fr) ==
    CASE fr.pc = "start" ->
            Yield(SetTop(w, t, [fr EXCEPT !.pc = "folder",
                !.list = getFoldersWithSameName(w.folders, w.listing, fr.name,
                                                pathSkipFromSettings(w.settings))]))
      [] fr.pc = "folder" ->
            IF fr.i > Len(fr.list) THEN Go(Return(w, t))
            ELSE Go(SetTop(w, t, [fr EXCEPT !.pc = "note", !.j = 1,
                        !.notes = getMarkdownFilesUnderFolder(w, fr.list[fr.i])]))
      [] OTHER ->
            IF fr.j > Len(fr.notes)
            THEN Go(SetTop(w, t, [fr EXCEPT !.pc = "folder", !.i = @ + 1]))
            ELSE Go(Call(w, t, [fr EXCEPT !.j = @ + 1], NewFrame("Upsert", 0, fr.notes[fr.j], <<>>)))

\* mutant: the previous suffix is set before the notes are visited
StepLinkRefresh_SetsFirst(w, t, fr) ==
    IF fr.pc = "start"
    THEN Go(SetTop([w EXCEPT !.settings.previousHubSuffix = w.settings.hubSuffix], t,
                   [fr EXCEPT !.pc = "note", !.notes = getMarkdownFiles(w)]))
    ELSE IF fr.j > Len(fr.notes) THEN Go(Return(w, t))
    ELSE IF w.files[fr.notes[fr.j]].folder # 0 /\ SkipFolder(w, w.files[fr.notes[fr.j]].folder)
    THEN Go(SetTop(w, t, [fr EXCEPT !.j = @ + 1]))
    ELSE Go(Call(w, t, [fr EXCEPT !.j = @ + 1], NewFrame("Upsert", 0, fr.notes[fr.j], <<>>)))

\* buildRefreshHubLinks
StepLinkRefresh(w, t, fr) ==
    IF fr.pc = "start"
    THEN Go(SetTop(w, t, [fr EXCEPT !.pc = "note", !.notes = getMarkdownFiles(w)]))
    ELSE IF fr.j > Len(fr.notes)
    THEN Go(Return([w EXCEPT !.settings.previousHubSuffix = w.settings.hubSuffix], t))
    ELSE LET x == fr.notes[fr.j]
             folder == w.files[x].folder
         IN  IF folder # 0 /\ SkipFolder(w, folder)
             THEN Go(SetTop(w, t, [fr EXCEPT !.j = @ + 1]))
             ELSE Go(Call(w, t, [fr EXCEPT !.j = @ + 1], NewFrame("Upsert", 0, x, <<>>)))

\* removeAllHubLinksFromNotes
StepRemoveLinks(w, t, fr) ==
    LET x == fr.notes[fr.j]
        next == [fr EXCEPT !.pc = "note", !.j = @ + 1]
        stripped == StripSeparator(SliceJoin(fr.content,
                        stripLeadingHubLinkLines(fr.content, w.settings)))
        rest == IF fr.flag THEN updateParentLinkUnderDirectory(stripped, NoTarget)
                ELSE stripped
    IN  CASE fr.pc = "start" ->
                Go(SetTop(w, t, [fr EXCEPT !.pc = "note", !.notes = getMarkdownFiles(w)]))
          [] fr.pc = "note" /\ fr.j > Len(fr.notes) -> Go(Return(w, t))
          [] fr.pc = "note" /\ fr.j <= Len(fr.notes) ->
                IF ~Live(w, x) THEN Go(Thrown(w))
                ELSE Yield(SetTop(w, t, [fr EXCEPT !.pc = "write",
                                             !.content = w.files[x].content,
                                             !.flag = isHubNote(w, x)]))
          [] OTHER ->
                IF rest = fr.content THEN Go(SetTop(w, t, next))
                ELSE Yield(SetTop(vaultModify(setWriteLock(w, FilePath(w, x)), x, rest),
                                  t, next))


\* onFolderCreate, after its guards
StepOnFolderCreate(w, t, fr) ==
    LET name == w.folders[fr.f].name
    IN  CASE fr.pc = "start" ->
                Go(Call(w, t, [fr EXCEPT !.pc = "numbering"], NewFrame("EnsureHub", fr.f, 0, <<>>)))
          [] fr.pc = "numbering" ->
                Go(Call(w, t, [fr EXCEPT !.pc = "links"], NewFrame("Assign", 0, 0, name)))
          [] OTHER -> Go(TailCall(w, t, NewFrame("RefreshLinks", 0, 0, name)))

\* onFolderRename, after its guards; fr.name is the last segment of oldPath
StepOnFolderRename(w, t, fr) ==
    LET name == w.folders[fr.f].name
        found == findHubInFolder(w, fr.f)
        hub == IF found # 0 THEN found ELSE findHubInFolderWithName(w, fr.f, fr.name)
    IN  CASE fr.pc = "start" ->
                Yield(SetTop(w, t, [fr EXCEPT !.pc = "rename", !.path = Expected(w, fr.f)]))
          [] fr.pc = "rename" ->
                IF hub # 0 /\ w.files[hub].base # fr.path
                THEN Yield(SetTop(RenameHub(w, hub, fr.f, fr.path), t,
                                  [fr EXCEPT !.pc = "numberOld"]))
                ELSE Go(SetTop(w, t, [fr EXCEPT !.pc = "numberOld"]))
          [] fr.pc = "numberOld" ->
                Go(Call(w, t, [fr EXCEPT !.pc = "numberNew"], NewFrame("Assign", 0, 0, fr.name)))
          [] fr.pc = "numberNew" ->
                Go(Call(w, t, [fr EXCEPT !.pc = "linksOld"], NewFrame("Assign", 0, 0, name)))
          [] fr.pc = "linksOld" ->
                Go(Call(w, t, [fr EXCEPT !.pc = "linksNew"], NewFrame("RefreshLinks", 0, 0, fr.name)))
          [] fr.pc = "linksNew" ->
                Go(Call(w, t, [fr EXCEPT !.pc = "hubAfter"], NewFrame("RefreshLinks", 0, 0, name)))
          [] fr.pc = "hubAfter" ->
                LET after == [fr EXCEPT !.pc = "child", !.i = 1,
                                  !.list = SetToSeq(ChildFolders(w, fr.f))]
                IN  IF found # 0 THEN Go(Call(w, t, after, NewFrame("EnsureContent", fr.f, found, <<>>)))
                    ELSE Go(SetTop(w, t, after))
          [] fr.pc = "child" /\ fr.i <= Len(fr.list) ->
                LET childHub == findHubInFolder(w, fr.list[fr.i])
                    next == [fr EXCEPT !.i = @ + 1]
                IN  IF childHub # 0
                    THEN Go(Call(w, t, next, NewFrame("EnsureContent", fr.list[fr.i], childHub, <<>>)))
                    ELSE Go(SetTop(w, t, next))
          [] fr.pc = "child" /\ fr.i > Len(fr.list) ->
                Go(SetTop(w, t, [fr EXCEPT !.pc = "note", !.j = 1,
                                     !.notes = getMarkdownFilesUnderFolder(w, fr.f)]))
          [] OTHER ->
                IF fr.j > Len(fr.notes) THEN Go(Return(w, t))
                ELSE Go(Call(w, t, [fr EXCEPT !.j = @ + 1], NewFrame("Upsert", 0, fr.notes[fr.j], <<>>)))

\* mutant: the numbering is not run again, only the links are refreshed
StepOnFolderDelete_LinksOnly(w, t, fr) == Go(TailCall(w, t, NewFrame("RefreshLinks", 0, 0, fr.name)))

\* onFolderDelete, after its guards
StepOnFolderDelete(w, t, fr) ==
    IF fr.pc = "start"
    THEN Go(Call(w, t, [fr EXCEPT !.pc = "links"], NewFrame("Assign", 0, 0, fr.name)))
    ELSE Go(TailCall(w, t, NewFrame("RefreshLinks", 0, 0, fr.name)))

(***************************************************************************)
(* main: the commands and the startup pass, and the scheduler.             *)
(***************************************************************************)
\* buildRefreshHubNotes() of the plugin
StepCmdRebuild(w, t, fr) ==
    CASE fr.pc = "start" ->
            Yield(SetTop(saveSettings([w EXCEPT
                            !.settings.autoCreateSuppressedUntilBuildRefresh = FALSE]),
                         t, [fr EXCEPT !.pc = "run"]))
      [] fr.pc = "run" -> Go(Call(w, t, [fr EXCEPT !.pc = "save"], NewFrame("Rebuild", 0, 0, <<>>)))
      [] OTHER -> Yield(Return(Notice(saveSettings(w)), t))

\* buildRefreshHubLinks() of the plugin
StepCmdLinks(w, t, fr) ==
    CASE fr.pc = "start" ->
            Yield(SetTop(saveSettings([w EXCEPT
                            !.settings.autoCreateSuppressedUntilBuildRefresh = FALSE]),
                         t, [fr EXCEPT !.pc = "run"]))
      [] fr.pc = "run" -> Go(Call(w, t, [fr EXCEPT !.pc = "save"], NewFrame("LinkRefresh", 0, 0, <<>>)))
      [] OTHER -> Yield(Return(Notice(saveSettings(w)), t))

\* removeAllHubNotes() of the plugin
StepCmdRemoveHubs(w, t, fr) ==
    CASE fr.pc = "start" ->
            Yield(SetTop(saveSettings([w EXCEPT
                            !.settings.autoCreateSuppressedUntilBuildRefresh = TRUE]),
                         t, [fr EXCEPT !.pc = "run"]))
      [] fr.pc = "run" ->
            Go(Call(w, t, [fr EXCEPT !.pc = "notice"],
                    NewFrame("DeleteHubs", 0, 0, OrUnderscore(w.settings.hubSuffix))))
      [] OTHER -> Go(Return(Notice(w), t))

\* removeAllHubLinks() of the plugin
StepCmdRemoveLinks(w, t, fr) ==
    CASE fr.pc = "start" ->
            Yield(SetTop(saveSettings([w EXCEPT
                            !.settings.autoCreateSuppressedUntilBuildRefresh = TRUE]),
                         t, [fr EXCEPT !.pc = "run"]))
      [] fr.pc = "run" -> Go(Call(w, t, [fr EXCEPT !.pc = "notice"], NewFrame("RemoveLinks", 0, 0, <<>>)))
      [] OTHER -> Go(Return(Notice(w), t))

\* runStartupRefresh(): fr.flag is wasRealTime
\* mutant: the startup pass clears autoCreateSuppressedUntilBuildRefresh
StepStartup_ClearsFlag(w, t, fr) ==
    CASE fr.pc = "start" ->
            Go(Call([w EXCEPT !.settings.realTimeUpdating = FALSE,
                              !.settings.autoCreateSuppressedUntilBuildRefresh = FALSE], t,
                    [fr EXCEPT !.pc = "save", !.flag = w.settings.realTimeUpdating],
                    NewFrame("Rebuild", 0, 0, <<>>)))
      [] fr.pc = "save" -> Yield(SetTop(saveSettings(w), t, [fr EXCEPT !.pc = "links"]))
      [] fr.pc = "links" -> Go(Call(w, t, [fr EXCEPT !.pc = "finally"], NewFrame("LinkRefresh", 0, 0, <<>>)))
      [] OTHER ->
            Yield(Return(saveSettings([w EXCEPT !.settings.realTimeUpdating = fr.flag]), t))

StepStartup(w, t, fr) ==
    CASE fr.pc = "start" ->
            Go(Call([w EXCEPT !.settings.realTimeUpdating = FALSE], t,
                    [fr EXCEPT !.pc = "save", !.flag = w.settings.realTimeUpdating],
                    NewFrame("Rebuild", 0, 0, <<>>)))
      [] fr.pc = "save" -> Yield(SetTop(saveSettings(w), t, [fr EXCEPT !.pc = "links"]))
      [] fr.pc = "links" -> Go(Call(w, t, [fr EXCEPT !.pc = "finally"], NewFrame("LinkRefresh", 0, 0, <<>>)))
      [] OTHER ->
            Yield(Return(saveSettings([w EXCEPT !.settings.realTimeUpdating = fr.flag]), t))

\* runSuffixMigrationIfNeeded with a migration pending: rebuild, link refresh, save
StepMigration(w, t, fr) ==
    CASE fr.pc = "start" -> Go(Call(w, t, [fr EXCEPT !.pc = "links"], NewFrame("Rebuild", 0, 0, <<>>)))
      [] fr.pc = "links" -> Go(Call(w, t, [fr EXCEPT !.pc = "save"], NewFrame("LinkRefresh", 0, 0, <<>>)))
      [] OTHER -> Yield(Return(saveSettings(w), t))

\* one step of the frame on top
Micro(w, t) ==
    LET fr == Top(w, t)
    IN  CASE fr.op = "Wait" -> StepWait(w, t, fr)
          [] fr.op = "Build" -> StepBuild(w, t, fr)
          [] fr.op = "EnsureContent" -> StepEnsureContent(w, t, fr)
          [] fr.op = "EnsureHub" -> StepEnsureHub(w, t, fr)
          [] fr.op = "Assign" -> StepAssign(w, t, fr)
          [] fr.op = "DeleteHubs" -> StepDeleteHubs(w, t, fr)
          [] fr.op = "Rebuild" -> StepRebuild(w, t, fr)
          [] fr.op = "Upsert" -> StepUpsert(w, t, fr)
          [] fr.op = "RefreshLinks" -> StepRefreshLinks(w, t, fr)
          [] fr.op = "LinkRefresh" -> StepLinkRefresh(w, t, fr)
          [] fr.op = "RemoveLinks" -> StepRemoveLinks(w, t, fr)
          [] fr.op = "OnFolderCreate" -> StepOnFolderCreate(w, t, fr)
          [] fr.op = "OnFolderRename" -> StepOnFolderRename(w, t, fr)
          [] fr.op = "OnFolderDelete" -> StepOnFolderDelete(w, t, fr)
          [] fr.op = "CmdRebuild" -> StepCmdRebuild(w, t, fr)
          [] fr.op = "CmdLinks" -> StepCmdLinks(w, t, fr)
          [] fr.op = "CmdRemoveHubs" -> StepCmdRemoveHubs(w, t, fr)
          [] fr.op = "CmdRemoveLinks" -> StepCmdRemoveLinks(w, t, fr)
          [] fr.op = "Migration" -> StepMigration(w, t, fr)
          [] OTHER -> StepStartup(w, t, fr)

\* a rejected promise propagates to the caller: the frames go, down to the
\* try/finally of runStartupRefresh; past the top the handler's .catch takes it
\* mutant: no finally, the rejection leaves runStartupRefresh at once
Unwind_NoFinally(stack) == <<>>

RECURSIVE Unwind(_)
Unwind(stack) ==
    IF stack = <<>> THEN <<>>
    ELSE IF Head(stack).op = "Startup"
    THEN <<[Head(stack) EXCEPT !.pc = "finally"]>> \o Tail(stack)
    ELSE Unwind(Tail(stack))

\* the task runs from where it stands to its next suspension, or to its end
RECURSIVE Run(_, _)
Run(w, t) ==
    LET after(r) ==
            IF r.w.blocked THEN r.w
            ELSE IF r.w.thrown
            THEN Run([r.w EXCEPT !.thrown = FALSE, !.tasks[t].stack = Unwind(@)], t)
            ELSE IF ~r.y THEN Run(r.w, t)
            ELSE IF r.w.tasks[t].stack = <<>> THEN [r.w EXCEPT !.tasks[t] = IdleTask]
            ELSE r.w
    IN  IF w.tasks[t].stack = <<>> THEN [w EXCEPT !.tasks[t] = IdleTask]
        ELSE after(Micro(w, t))

\* the variables take the world's values, unless the step cannot be taken
Commit(w) ==
    /\ ~w.blocked
    /\ folders' = w.folders
    /\ files' = w.files
    /\ listing' = w.listing
    /\ settings' = w.settings
    /\ saved' = w.saved
    /\ locks' = w.locks
    /\ now' = w.now
    /\ tasks' = w.tasks
    /\ log' = w.log
    /\ build' = w.build

Acting(w, t, kind) ==
    [w EXCEPT !.log = [actor |-> t, kind |-> kind, writes |-> {}, notices |-> 0]]

\* a task is started: it runs to its first suspension at once
Spawn(w, t, kind, frame) ==
    Run([Acting(w, t, kind) EXCEPT
            !.tasks[t] = [kind |-> kind, stack |-> <<frame>>, ret |-> 0, retc |-> <<>>]], t)

IdleTasks == {t \in DOMAIN tasks : tasks[t].kind = "idle"}

\* the scheduler resumes a suspended task
Resume(t) ==
    /\ tasks[t].kind # "idle"
    /\ Commit(Run(Acting(World, t, tasks[t].kind), t))

TaskStep(t) == Resume(t) /\ UNCHANGED probe

(***************************************************************************)
(* Specification SpecNames: the resolver applied to every tree of          *)
(* MaxFolders folders, under every listing order of the storage layer.     *)
(* Folder f was created at time f.                                         *)
(***************************************************************************)
Perms(S) ==
    {p \in [1..Cardinality(S) -> S] : \A i, j \in 1..Cardinality(S) : i # j => p[i] # p[j]}

NoFiles == [i \in {} |-> 0]
NoTasks == [i \in {} |-> 0]
NoLocks == [i \in {} |-> 0]
EnvLog == [actor |-> 0, kind |-> "env", writes |-> {}, notices |-> 0]

NamesInit ==
    /\ folders \in {fs \in [1..MaxFolders ->
                        [alive : {TRUE}, name : {NameX, NameY, NameSkip},
                         parent : 0..MaxFolders, ctime : 1..MaxFolders]] :
                    /\ \A f \in 1..MaxFolders : fs[f].ctime = f
                    /\ WellFormedTree(fs)}
    /\ listing \in Perms(1..MaxFolders)
    /\ files = NoFiles
    /\ settings = DefaultSettings
    /\ saved = DefaultSettings
    /\ locks = NoLocks
    /\ now = 0
    /\ tasks = NoTasks
    /\ log = EnvLog
    /\ build = "App"
    /\ probe = [f \in {} |-> <<>>]

\* expectedHubName(container) of one container
Resolve(f) ==
    /\ DOMAIN probe = {}
    /\ probe' = [g \in {f} |-> getExpectedHubNameForFolder(folders, listing, f, settings)]
    /\ UNCHANGED <<folders, files, listing, settings, saved, locks, now, tasks, log, build>>

NamesNext == \E f \in FolderIds : Resolve(f)

SpecNames == NamesInit /\ [][NamesNext]_vars

(***************************************************************************)
(* Specification SpecTies: the resolver on trees whose folders may have    *)
(* equal creation times, 0 standing for a stat without ctime.              *)
(***************************************************************************)
TiesInit ==
    /\ folders \in {fs \in [1..MaxFolders ->
                        [alive : {TRUE}, name : {NameX, NameY, NameSkip},
                         parent : 0..MaxFolders, ctime : 0..1]] :
                    WellFormedTree(fs)}
    /\ listing \in Perms(1..MaxFolders)
    /\ files = NoFiles
    /\ settings = DefaultSettings
    /\ saved = DefaultSettings
    /\ locks = NoLocks
    /\ now = 0
    /\ tasks = NoTasks
    /\ log = EnvLog
    /\ build = "App"
    /\ probe = [f \in {} |-> <<>>]

SpecTies == TiesInit /\ [][NamesNext]_vars

(***************************************************************************)
(* Specification SpecFull: the rebuild command run twice in a row, with no *)
(* other task and no external change, on every tree of FullFolders folders *)
(* created parent first, each with no hub or with one hub, undecorated or   *)
(* numbered, with and without a suffix migration pending.                  *)
(***************************************************************************)
FullFolders == 3

OldSuffix == <<"-">>

Ascending(n) == [i \in 1..n |-> i]
Descending(n) == [i \in 1..n |-> n + 1 - i]

FreeFile == [state |-> "free", folder |-> 0, base |-> <<>>, content |-> <<>>]

\* the hub names in a folder named so, under a suffix
HubNames(name, suffix) ==
    {getHubNameForFolder(name, suffix)}
        \cup {getNumberedHubName(name, k, suffix) : k \in 1..2}

\* file f is the hub that folder f starts with, files n+1..2n are free
StartFiles(fs, n, prev) ==
    LET names(f) == HubNames(fs[f].name, prev)
                        \cup {getHubNameForFolder(fs[f].name, <<"_">>)}
        all == UNION {names(f) : f \in 1..n} \cup {<<>>}
    IN  {[x \in 1..(2 * n) |->
            IF x <= n /\ c[x] # <<>>
            THEN [state |-> "live", folder |-> x, base |-> c[x],
                  content |-> HubContentLines(NoTarget)]
            ELSE FreeFile] :
         c \in {d \in [1..n -> all] : \A f \in 1..n : d[f] = <<>> \/ d[f] \in names(f)}}

\* the trees of n folders, folder f created at time f, after its parent
StartTrees(n, names) ==
    {fs \in {[f \in 1..n |-> [alive |-> TRUE, name |-> c[f][1], parent |-> c[f][2],
                              ctime |-> f]] : c \in [1..n -> names \X (0..(n - 1))]} :
        /\ \A f \in 1..n : fs[f].parent < f
        /\ WellFormedTree(fs)}

FullInit ==
    /\ folders \in StartTrees(FullFolders, {NameX, NameY})
    /\ listing \in {Ascending(FullFolders), Descending(FullFolders)}
    /\ settings \in {[DefaultSettings EXCEPT !.previousHubSuffix = prev] :
                        prev \in {<<"_">>, OldSuffix}}
    /\ files \in StartFiles(folders, FullFolders, settings.previousHubSuffix)
    /\ saved = settings
    /\ locks = NoLocks
    /\ now = 0
    /\ tasks = [t \in {1} |-> IdleTask]
    /\ log = EnvLog
    /\ build = "App"
    /\ probe = [runs |-> 0, writes |-> [r \in 1..2 |-> {}]]

\* the user runs the rebuild command
RunRebuild ==
    /\ tasks[1].kind = "idle"
    /\ probe.runs < 2
    /\ Commit(Spawn(World, 1, "CmdRebuild", NewFrame("CmdRebuild", 0, 0, <<>>)))
    /\ probe' = [probe EXCEPT !.runs = @ + 1, !.writes[probe.runs + 1] = log'.writes]

\* the command goes on
FullStep ==
    /\ Resume(1)
    /\ probe' = [probe EXCEPT !.writes[probe.runs] = @ \cup log'.writes]

FullNext == RunRebuild \/ FullStep

SpecFull == FullInit /\ [][FullNext]_vars

(***************************************************************************)
(* vaultEvents: the registered callbacks and the guards of the handlers.   *)
(* A callback runs when the vault changes; the handler it starts runs to   *)
(* its first suspension at once.                                           *)
(***************************************************************************)
WRITE_LOCK_MS == 1200

\* mutant: an entry of the lock map never expires
isWriteLocked_Forever(w, path) == path \in DOMAIN w.locks

\* mutant: an entry still holds when exactly WRITE_LOCK_MS have passed
isWriteLocked_AtTTL(w, path) ==
    path \in DOMAIN w.locks /\ w.now - w.locks[path] <= WRITE_LOCK_MS

isWriteLocked(w, path) ==
    path \in DOMAIN w.locks /\ w.now - w.locks[path] < WRITE_LOCK_MS

\* the lock map after isWriteLocked(path): an expired entry is deleted
LockChecked(w, path) ==
    IF path \in DOMAIN w.locks /\ ~isWriteLocked(w, path)
    THEN [w EXCEPT !.locks = [p \in (DOMAIN w.locks) \ {path} |-> w.locks[p]]]
    ELSE w

\* mutant: the handlers do not look at the flags
Paused_Never(w) == FALSE

\* if (!settings.realTimeUpdating) return;
\* if (settings.autoCreateSuppressedUntilBuildRefresh) return;
Paused(w) ==
    ~w.settings.realTimeUpdating \/ w.settings.autoCreateSuppressedUntilBuildRefresh

\* if (settings.hubSuffix === (settings.previousHubSuffix ?? settings.hubSuffix)) return false;
MigrationPending(w) == w.settings.hubSuffix # w.settings.previousHubSuffix

\* runSuffixMigrationIfNeeded with a migration pending, after which the handler
\* returns.  It passes the Vault to buildRefreshHubNotes.  The one of
\* hubContent.ts takes the App and reads app.vault, which is undefined on a
\* Vault: deleteAllHubFilesWithSuffix throws a TypeError at vault.getAllFolders,
\* before any storage call, and the handler's .catch(() => {}) takes it.  The
\* one that takes the Vault (as the second main.ts calls it) runs.
runSuffixMigrationIfNeeded(w, t, kind) ==
    IF w.build = "App" THEN w
    ELSE Spawn(w, t, kind, NewFrame("Migration", 0, 0, <<>>))

\* shouldSkipPath(file.path, options): the last segment is the file's name
SkipFile(w, x) ==
    shouldSkipPath(PathOf(w.folders, w.files[x].folder)
                       \o <<w.files[x].base \o <<".md">>>>,
                   pathSkipFromSettings(w.settings))

onFolderCreate(w, t, f) ==
    IF Paused(w) THEN w
    ELSE IF MigrationPending(w) THEN runSuffixMigrationIfNeeded(w, t, "onFolderCreate")
    ELSE IF SkipFolder(w, f) THEN w
    ELSE Spawn(w, t, "onFolderCreate", NewFrame("OnFolderCreate", f, 0, <<>>))

onFolderRename(w, t, f, oldName) ==
    IF Paused(w) THEN w
    ELSE IF MigrationPending(w) THEN runSuffixMigrationIfNeeded(w, t, "onFolderRename")
    ELSE IF SkipFolder(w, f) THEN w
    ELSE Spawn(w, t, "onFolderRename", NewFrame("OnFolderRename", f, 0, oldName))

onFolderDelete(w, t, name) ==
    IF Paused(w) THEN w
    ELSE IF MigrationPending(w) THEN runSuffixMigrationIfNeeded(w, t, "onFolderDelete")
    ELSE Spawn(w, t, "onFolderDelete", NewFrame("OnFolderDelete", 0, 0, name))

onFileCreate(w, t, x) ==
    IF Paused(w) THEN w
    ELSE IF MigrationPending(w) THEN runSuffixMigrationIfNeeded(w, t, "onFileCreate")
    ELSE IF isWriteLocked(w, FilePath(w, x)) THEN w
    ELSE IF SkipFile(w, x) THEN LockChecked(w, FilePath(w, x))
    ELSE Spawn(LockChecked(w, FilePath(w, x)), t, "onFileCreate", NewFrame("Upsert", 0, x, <<>>))

onFileRename(w, t, x) ==
    IF Paused(w) THEN w
    ELSE IF MigrationPending(w) THEN runSuffixMigrationIfNeeded(w, t, "onFileRename")
    ELSE IF isWriteLocked(w, FilePath(w, x)) THEN w
    ELSE Spawn(LockChecked(w, FilePath(w, x)), t, "onFileRename", NewFrame("Upsert", 0, x, <<>>))

\* vault.on("create")
CreatedFolder(w, t, f) ==
    IF isWriteLocked(w, PathOf(w.folders, f)) THEN w
    ELSE onFolderCreate(LockChecked(w, PathOf(w.folders, f)), t, f)

CreatedFile(w, t, x) ==
    IF isWriteLocked(w, FilePath(w, x)) THEN w
    ELSE onFileCreate(LockChecked(w, FilePath(w, x)), t, x)

\* mutant: the callback renames the document, to the numbered name or back
RenamedFile_Again(w, t, x) ==
    LET name == w.folders[w.files[x].folder].name
        base == getHubNameForFolder(name, w.settings.hubSuffix)
        other == getNumberedHubName(name, 1, w.settings.hubSuffix)
    IN  vaultRename(w, x, PathOf(w.folders, w.files[x].folder)
                              \o <<IF w.files[x].base = base THEN other ELSE base>>)

\* vault.on("rename")
RenamedFolder(w, t, f, oldPath) ==
    LET path == PathOf(w.folders, f)
    IN  IF isWriteLocked(w, path) THEN w
        ELSE IF isWriteLocked(w, oldPath) THEN LockChecked(w, path)
        ELSE onFolderRename(LockChecked(LockChecked(w, path), oldPath), t, f,
                            oldPath[Len(oldPath)])

RenamedFile(w, t, x) == onFileRename(w, t, x)

\* vault.on("delete")
DeletedFolder(w, t, name) == onFolderDelete(w, t, name)

(***************************************************************************)
(* The user's changes of the vault.                                        *)
(***************************************************************************)
\* a folder without subfolders is deleted, with the files in it
DeleteFolder(w, f) ==
    [w EXCEPT !.folders[f].alive = FALSE,
              !.files = [x \in DOMAIN w.files |->
                            IF Live(w, x) /\ w.files[x].folder = f
                            THEN [w.files[x] EXCEPT !.state = "dead"]
                            ELSE w.files[x]]]

\* a vault the engine has nothing to do in: every non-excluded folder f has
\* its hub (file f) under its expected name, with the content buildHubContent
\* gives it
SettledFiles(fs, order, s, n, extra) ==
    [x \in 1..(n + extra) |->
        IF x <= n /\ NonExcluded(fs, x, s)
        THEN [state |-> "live", folder |-> x,
              base |-> getExpectedHubNameForFolder(fs, order, x, s),
              content |-> HubContentLines(
                  IF fs[x].parent # 0 /\ s.parentLinkForSubfolderHubs
                  THEN getExpectedHubNameForFolder(fs, order, fs[x].parent, s)
                  ELSE NoTarget)]
        ELSE FreeFile]

\* a note n in folder g with its hub link, separator and a line of text
SettledNote(fs, order, s, g) ==
    [state |-> "live", folder |-> g, base |-> <<"n">>,
     content |-> NewTop(getExpectedHubNameForFolder(fs, order, g, s), s) \o <<TextLine>>]

(***************************************************************************)
(* Specification SpecDelete: in a settled vault of DeleteFolders folders   *)
(* the user deletes one folder, and onFolderDelete runs alone to its end.  *)
(***************************************************************************)
DeleteFolders == 4

LiveSettings == [DefaultSettings EXCEPT !.autoCreateSuppressedUntilBuildRefresh = FALSE]

DeleteInit ==
    /\ folders \in StartTrees(DeleteFolders, {NameX, NameY})
    /\ listing = Ascending(DeleteFolders)
    /\ settings = LiveSettings
    /\ \E g \in 1..DeleteFolders :
        files = [SettledFiles(folders, listing, settings, DeleteFolders, 1)
                    EXCEPT ![DeleteFolders + 1] =
                        SettledNote(folders, listing, settings, g)]
    /\ saved = settings
    /\ locks = NoLocks
    /\ now = 0
    /\ tasks = [t \in {1} |-> IdleTask]
    /\ log = EnvLog
    /\ build = "App"
    /\ probe = [deleted |-> 0, before |-> <<>>]

\* the user deletes folder f; the delete callback runs
UserDeletesFolder(f) ==
    /\ probe.deleted = 0
    /\ folders[f].alive
    /\ ChildFolders(World, f) = {}
    /\ Commit(DeletedFolder(Acting(DeleteFolder(World, f), 1, "onFolderDelete"), 1,
                            folders[f].name))
    /\ probe' = [deleted |-> f,
                 before |-> getFoldersWithSameName(folders, listing, folders[f].name,
                                                   pathSkipFromSettings(settings))]

DeleteNext == (\E f \in FolderIds : UserDeletesFolder(f)) \/ TaskStep(1)

SpecDelete == DeleteInit /\ [][DeleteNext]_vars

(***************************************************************************)
(* Specification SpecLive: live sync.  Folder 1 is in the vault with its   *)
(* hub; the user creates up to MaxEvents folders and notes, and every      *)
(* creation starts its handler while earlier handlers may be suspended.    *)
(***************************************************************************)
LiveFolders == 3
LiveFiles == 5
LiveTasks == 2
MaxEvents == 2

\* a folder that was never in the vault
NoFolder == [alive |-> FALSE, name |-> <<>>, parent |-> 0, ctime |-> 0]

LiveInit ==
    /\ \E name \in {NameX, NameY} :
        folders = [f \in 1..LiveFolders |->
                      IF f = 1 THEN [alive |-> TRUE, name |-> name, parent |-> 0, ctime |-> 1]
                      ELSE NoFolder]
    /\ listing = Ascending(LiveFolders)
    /\ settings = LiveSettings
    /\ files = SettledFiles(folders, listing, settings, 1, LiveFiles - 1)
    /\ saved = settings
    /\ locks = NoLocks
    /\ now = 0
    /\ tasks = [t \in 1..LiveTasks |-> IdleTask]
    /\ log = EnvLog
    /\ build = "App"
    /\ probe = [left |-> MaxEvents]

\* the user creates a folder; the create callback runs
UserCreatesFolder(name, parent) ==
    LET f == Min({g \in FolderIds : folders[g].ctime = 0})
        made == [World EXCEPT !.folders[f] =
                    [alive |-> TRUE, name |-> name, parent |-> parent, ctime |-> f]]
    IN  /\ probe.left > 0
        /\ IdleTasks # {}
        /\ \E g \in FolderIds : folders[g].ctime = 0
        /\ (IF parent = 0 THEN TRUE ELSE folders[parent].alive)
        /\ FolderAt(World, PathOf(folders, parent) \o <<name>>) = -1
        /\ Commit(CreatedFolder(Acting(made, 0, "create"), Min(IdleTasks), f))
        /\ probe' = [probe EXCEPT !.left = @ - 1]

\* the user creates the note n in a folder; the create callback runs
UserCreatesNote(g) ==
    LET x == Min({y \in DOMAIN files : files[y].state = "free"})
        made == [World EXCEPT !.files[x] =
                    [state |-> "live", folder |-> g, base |-> <<"n">>,
                     content |-> <<TextLine>>]]
    IN  /\ probe.left > 0
        /\ IdleTasks # {}
        /\ \E y \in DOMAIN files : files[y].state = "free"
        /\ folders[g].alive
        /\ FileAt(World, PathOf(folders, g) \o <<<<"n">>>>) = 0
        /\ Commit(CreatedFile(Acting(made, 0, "create"), Min(IdleTasks), x))
        /\ probe' = [probe EXCEPT !.left = @ - 1]

\* a suspended handler goes on
LiveStep == \E t \in DOMAIN tasks : TaskStep(t)

LiveNext ==
    \/ \E name \in {NameX, NameY}, parent \in {0} \cup FolderIds :
            UserCreatesFolder(name, parent)
    \/ \E g \in FolderIds : UserCreatesNote(g)
    \/ LiveStep

SpecLive == LiveInit /\ [][LiveNext]_vars

(***************************************************************************)
(* Specification SpecCmd: the commands next to live sync.  The plugin was  *)
(* loaded with live sync on, so the startup pass is scheduled; the user    *)
(* creates folders and notes and runs up to MaxCommands commands, one at a *)
(* time.                                                                   *)
(***************************************************************************)
CmdFolders == 2
CmdEvents == 1
MaxCommands == 2

Commands == {"CmdRebuild", "CmdLinks", "CmdRemoveHubs", "CmdRemoveLinks"}

CmdInit ==
    /\ folders = [f \in 1..CmdFolders |->
                      IF f = 1 THEN [alive |-> TRUE, name |-> NameX, parent |-> 0, ctime |-> 1]
                      ELSE NoFolder]
    /\ listing = Ascending(CmdFolders)
    /\ settings = LiveSettings
    /\ files = SettledFiles(folders, listing, settings, 1, LiveFiles - 1)
    /\ saved = settings
    /\ locks = NoLocks
    /\ now = 0
    /\ tasks = [t \in 1..LiveTasks |-> IdleTask]
    /\ log = EnvLog
    /\ build = "App"
    /\ probe = [left |-> CmdEvents, commands |-> MaxCommands, startup |-> "scheduled"]

\* the user runs a command of the plugin
UserRuns(cmd) ==
    /\ probe.commands > 0
    /\ \A t \in DOMAIN tasks : tasks[t].kind \notin Commands
    /\ IdleTasks # {}
    /\ Commit(Spawn(World, Min(IdleTasks), cmd, NewFrame(cmd, 0, 0, <<>>)))
    /\ probe' = [probe EXCEPT !.commands = @ - 1]

\* the timer set in onload fires: runStartupRefresh
StartupFires ==
    /\ probe.startup = "scheduled"
    /\ IdleTasks # {}
    /\ Commit(Spawn(World, Min(IdleTasks), "Startup", NewFrame("Startup", 0, 0, <<>>)))
    /\ probe' = [probe EXCEPT !.startup = "ran"]

CmdNext ==
    \/ \E name \in {NameX, NameY}, parent \in {0} \cup FolderIds :
            UserCreatesFolder(name, parent)
    \/ \E g \in FolderIds : UserCreatesNote(g)
    \/ \E cmd \in Commands : UserRuns(cmd)
    \/ StartupFires
    \/ LiveStep

SpecCmd == CmdInit /\ [][CmdNext]_vars

(***************************************************************************)
(* Specification SpecFlag: SpecCmd with the toggle of "hide links in       *)
(* notes", as a command and in the settings tab, which sets the option,    *)
(* saves and calls the plugin's buildRefreshHubLinks.                      *)
(***************************************************************************)
\* the user toggles autoHideHubLinks; the settings tab sets removeHiddenBlink
\* with it
UserTogglesHide(tab) ==
    /\ probe.commands > 0
    /\ \A t \in DOMAIN tasks : tasks[t].kind \notin Commands
    /\ IdleTasks # {}
    /\ LET hide == ~settings.autoHideHubLinks
           toggled == [World EXCEPT !.settings.autoHideHubLinks = hide,
                                    !.settings.removeHiddenBlink = IF tab THEN hide ELSE @]
       IN  Commit(Spawn(saveSettings(toggled), Min(IdleTasks), "CmdLinks",
                        NewFrame("CmdLinks", 0, 0, <<>>)))
    /\ probe' = [probe EXCEPT !.commands = @ - 1]

FlagNext == CmdNext \/ \E tab \in BOOLEAN : UserTogglesHide(tab)

SpecFlag == CmdInit /\ [][FlagNext]_vars

(***************************************************************************)
(* Specification SpecStart: the startup pass with folders and notes        *)
(* created before, during and after it; the note may lack its hub link and *)
(* one document may reject every change.                                   *)
(***************************************************************************)
StartEvents == 2

\* folder 1 is X with its hub X_ (file 1) and the note n (file 2)
StartInit ==
    /\ folders = [f \in 1..CmdFolders |->
                      IF f = 1 THEN [alive |-> TRUE, name |-> NameX, parent |-> 0, ctime |-> 1]
                      ELSE NoFolder]
    /\ listing = Ascending(CmdFolders)
    /\ settings = LiveSettings
    /\ \E d \in 0..2, linked \in BOOLEAN :
        files = [x \in 1..LiveFiles |->
                    LET file == IF x = 2
                                THEN [SettledNote(folders, listing, settings, 1) EXCEPT
                                         !.content = IF linked THEN @ ELSE <<TextLine>>]
                                ELSE SettledFiles(folders, listing, settings, 1, LiveFiles - 1)[x]
                    IN  IF x = d THEN [file EXCEPT !.state = "denied"] ELSE file]
    /\ saved = settings
    /\ locks = NoLocks
    /\ now = 0
    /\ tasks = [t \in 1..LiveTasks |-> IdleTask]
    /\ log = EnvLog
    /\ build = "App"
    /\ probe = [left |-> StartEvents, commands |-> 0, startup |-> "scheduled"]

StartNext ==
    \/ \E name \in {NameX, NameY}, parent \in {0} \cup FolderIds :
            UserCreatesFolder(name, parent)
    \/ \E g \in FolderIds : UserCreatesNote(g)
    \/ StartupFires
    \/ LiveStep

SpecStart == StartInit /\ [][StartNext]_vars

(***************************************************************************)
(* Specification SpecGate: the write lock at the callbacks.  Folder X holds *)
(* its hub and the note n.  Notifications arrive for the documents and the *)
(* folder, one at a time, under every state of the flags; the handlers and *)
(* one command write and so set locks, time passes, and the user may       *)
(* change the suffix.                                                      *)
(***************************************************************************)
GateEvents == 2
TickMs == 600
MaxNow == 1200

GateInit ==
    /\ folders = [f \in {1} |-> [alive |-> TRUE, name |-> NameX, parent |-> 0, ctime |-> 1]]
    /\ listing = <<1>>
    /\ settings \in {[DefaultSettings EXCEPT !.realTimeUpdating = live,
                                              !.autoCreateSuppressedUntilBuildRefresh = off] :
                        live \in BOOLEAN, off \in BOOLEAN}
    /\ \E note \in {SettledNote(folders, listing, settings, 1),
                    [SettledNote(folders, listing, settings, 1) EXCEPT !.content = <<TextLine>>]} :
        files = [SettledFiles(folders, listing, settings, 1, LiveFiles - 1) EXCEPT ![2] = note]
    /\ saved = settings
    /\ locks = NoLocks
    /\ now = 0
    /\ tasks = [t \in {1} |-> IdleTask]
    /\ log = EnvLog
    /\ build \in {"App", "Vault"}
    /\ probe = [left |-> GateEvents, commands |-> 1, path |-> <<>>, locked |-> FALSE,
                written |-> FALSE]

\* a notification for a path is delivered to its callback, which leaves world w
Deliver(w, path) ==
    /\ probe.left > 0
    /\ IdleTasks # {}
    /\ Commit(w)
    /\ probe' = [probe EXCEPT !.left = @ - 1, !.path = path,
                              !.locked = isWriteLocked(World, path),
                              !.written = path \in DOMAIN locks]

FileCreated(x) ==
    /\ Live(World, x)
    /\ Deliver(CreatedFile(Acting(World, 0, "create"), Min(IdleTasks), x), FilePath(World, x))

FolderCreated(f) ==
    Deliver(CreatedFolder(Acting(World, 0, "create"), Min(IdleTasks), f), PathOf(folders, f))

FileRenamed(x) ==
    /\ Live(World, x)
    /\ Deliver(RenamedFile(Acting(World, 0, "rename"), Min(IdleTasks), x), FilePath(World, x))

FolderRenamed(f, oldPath) ==
    Deliver(RenamedFolder(Acting(World, 0, "rename"), Min(IdleTasks), f, oldPath),
            PathOf(folders, f))

\* vault.on("delete") for a folder of that name, deleted before
FolderDeleted(name) ==
    Deliver(DeletedFolder(Acting(World, 0, "delete"), Min(IdleTasks), name), <<name>>)

\* the settings tab: saveSuffix
UserChangesSuffix(suffix) ==
    /\ suffix # settings.hubSuffix
    /\ settings.previousHubSuffix = settings.hubSuffix
    /\ Commit(saveSettings([Acting(World, 0, "settings") EXCEPT
                                !.settings.previousHubSuffix = settings.hubSuffix,
                                !.settings.hubSuffix = suffix]))
    /\ UNCHANGED probe

\* Date.now() advances
Tick ==
    /\ now < MaxNow
    /\ Commit([Acting(World, 0, "tick") EXCEPT !.now = now + TickMs])
    /\ UNCHANGED probe

GateNext ==
    \/ \E x \in DOMAIN files : FileCreated(x)
    \/ \E f \in FolderIds : FolderCreated(f)
    \/ \E x \in DOMAIN files : FileRenamed(x)
    \/ \E f \in FolderIds : FolderRenamed(f, <<NameY>>)
    \/ FolderDeleted(NameX)
    \/ UserChangesSuffix(OldSuffix)
    \/ \E cmd \in Commands : UserRuns(cmd)
    \/ Tick
    \/ LiveStep

SpecGate == GateInit /\ [][GateNext]_vars

(***************************************************************************)
(* Specification SpecUpsert: upsertHubLinkInNote on a note of a folder     *)
(* whose hub exists under its expected name, for every content of up to    *)
(* MaxLines lines and every setting of the three link options.             *)
(***************************************************************************)
MaxLines == 4

\* the lines a note is made of: empty, a hub link, a link that is no hub link,
\* a separator, text, indented text
NoteLines ==
    {EmptyLine, LinkTo(<<"X", "_">>), LinkTo(<<"n">>), SepLine, TextLine, IndentedLine}

Contents(n) == UNION {[1..k -> NoteLines] : k \in 1..n}

\* folder 1 is X with its hub X_ (file 1); file 2 is the note
UpsertInit ==
    /\ folders = [f \in {1} |-> [alive |-> TRUE, name |-> NameX, parent |-> 0, ctime |-> 1]]
    /\ listing = <<1>>
    /\ \E c \in Contents(MaxLines) :
        files = <<[state |-> "live", folder |-> 1, base |-> <<"X", "_">>,
                   content |-> HubContentLines(NoTarget)],
                  [state |-> "live", folder |-> 1, base |-> <<"n">>, content |-> c]>>
    /\ settings \in {[DefaultSettings EXCEPT !.insertSeparatorAfterHubLink = sep,
                                              !.removeHiddenBlink = blink,
                                              !.autoHideHubLinks = hide,
                                              !.autoCreateSuppressedUntilBuildRefresh = FALSE] :
                        sep \in BOOLEAN, blink \in BOOLEAN, hide \in BOOLEAN}
    /\ saved = settings
    /\ locks = NoLocks
    /\ now = 0
    /\ tasks = [t \in {1} |-> IdleTask]
    /\ log = EnvLog
    /\ build = "App"
    /\ probe = [original |-> files[2].content, calls |-> 0]

\* upsertHubLinkInNote(vault, note, settings) is called
CallUpsert ==
    /\ tasks[1].kind = "idle"
    /\ probe.calls = 0
    /\ Commit(Spawn(World, 1, "Upsert", NewFrame("Upsert", 0, 2, <<>>)))
    /\ probe' = [probe EXCEPT !.calls = 1]

UpsertNext == CallUpsert \/ TaskStep(1)

SpecUpsert == UpsertInit /\ [][UpsertNext]_vars

(***************************************************************************)
(* Specification SpecSuffix: in a settled vault of SuffixFolders folders   *)
(* with one note, the user changes the suffix and then runs up to          *)
(* MaxPasses of the rebuild and link-refresh commands, one after another.  *)
(***************************************************************************)
SuffixFolders == 2
MaxPasses == 2

SuffixInit ==
    /\ folders \in StartTrees(SuffixFolders, {NameX, NameY})
    /\ listing = Ascending(SuffixFolders)
    /\ settings \in {[LiveSettings EXCEPT !.hubSuffix = s, !.previousHubSuffix = s] :
                        s \in {<<"_">>, OldSuffix}}
    /\ \E g \in 1..SuffixFolders :
        files = [SettledFiles(folders, listing, settings, SuffixFolders, SuffixFolders + 1)
                    EXCEPT ![SuffixFolders + 1] = SettledNote(folders, listing, settings, g)]
    /\ saved = settings
    /\ locks = NoLocks
    /\ now = 0
    /\ tasks = [t \in {1} |-> IdleTask]
    /\ log = EnvLog
    /\ build = "App"
    /\ probe = [old |-> settings.hubSuffix, ran |-> <<>>]

\* the user runs the rebuild or the link-refresh command
RunsPass(cmd) ==
    /\ tasks[1].kind = "idle"
    /\ Len(probe.ran) < MaxPasses
    /\ Commit(Spawn(World, 1, cmd, NewFrame(cmd, 0, 0, <<>>)))
    /\ probe' = [probe EXCEPT !.ran = Append(@, cmd)]

SuffixNext ==
    \/ \E suffix \in {<<"_">>, OldSuffix} :
            tasks[1].kind = "idle" /\ probe.ran = <<>> /\ UserChangesSuffix(suffix)
    \/ \E cmd \in {"CmdRebuild", "CmdLinks"} : RunsPass(cmd)
    \/ TaskStep(1)

SpecSuffix == SuffixInit /\ [][SuffixNext]_vars

(***************************************************************************)
(* hideAndDecorate: the hub paths handed to the file explorer decoration.  *)
(***************************************************************************)
\* mutant: the excluded folders are not left out
getHubNotePaths_All(w) ==
    {PathOf(w.folders, f) \o <<Expected(w, f) \o <<".md">>>> :
        f \in {g \in DOMAIN w.folders : w.folders[g].alive}}

getHubNotePaths(w) ==
    {PathOf(w.folders, f) \o <<Expected(w, f) \o <<".md">>>> :
        f \in {g \in DOMAIN w.folders : w.folders[g].alive /\ ~SkipFolder(w, g)}}

(***************************************************************************)
(* Specification SpecSkip: excluded and dot folders.  Every tree of        *)
(* SkipFolders folders named X, T (excluded) or .X, a note in each folder  *)
(* and no hub yet; the user runs commands and notifications arrive for the *)
(* folders and the documents, one at a time.                               *)
(***************************************************************************)
SkipFolders == 2
SkipEvents == 2

SkipInit ==
    /\ folders \in StartTrees(SkipFolders, {NameX, NameSkip, NameDot})
    /\ listing = Ascending(SkipFolders)
    /\ settings \in {[LiveSettings EXCEPT !.skipDotFolders = dots] : dots \in BOOLEAN}
    /\ files = [x \in 1..(2 * SkipFolders) |->
                    IF x <= SkipFolders
                    THEN [state |-> "live", folder |-> x, base |-> <<"n">>,
                          content |-> <<TextLine>>]
                    ELSE FreeFile]
    /\ saved = settings
    /\ locks = NoLocks
    /\ now = 0
    /\ tasks = [t \in {1} |-> IdleTask]
    /\ log = EnvLog
    /\ build = "App"
    /\ probe = [left |-> SkipEvents, commands |-> 1, path |-> <<>>, locked |-> FALSE,
                written |-> FALSE]

SkipNext ==
    \/ \E x \in DOMAIN files : FileCreated(x)
    \/ \E f \in FolderIds : FolderCreated(f)
    \/ \E x \in DOMAIN files : FileRenamed(x)
    \/ \E f \in FolderIds : FolderRenamed(f, <<NameY>>)
    \/ \E name \in {NameX, NameSkip} : FolderDeleted(name)
    \/ \E cmd \in Commands : UserRuns(cmd)
    \/ LiveStep

SpecSkip == SkipInit /\ [][SkipNext]_vars

(***************************************************************************)
(* Specification SpecCrash: in a settled vault of CrashFolders folders the *)
(* user changes the suffix or not, then renames or deletes a folder or     *)
(* runs a full pass.  The handler or pass is stopped for good at one of    *)
(* its suspensions after a storage operation; the rebuild and then the     *)
(* link refresh run, alone.                                                *)
(***************************************************************************)
CrashFolders == 2

CrashInit ==
    /\ folders \in StartTrees(CrashFolders, {NameX, NameY})
    /\ listing = Ascending(CrashFolders)
    /\ settings = LiveSettings
    /\ \E g \in 1..CrashFolders :
        files = [SettledFiles(folders, listing, settings, CrashFolders, CrashFolders + 1)
                    EXCEPT ![CrashFolders + 1] = SettledNote(folders, listing, settings, g)]
    /\ saved = settings
    /\ locks = NoLocks
    /\ now = 0
    /\ tasks = [t \in {1} |-> IdleTask]
    /\ log = EnvLog
    /\ build = "App"
    /\ probe = [phase |-> "start", wrote |-> FALSE, ran |-> <<>>]

\* the handler or pass that is to be stopped starts, in world w
Starts(w) ==
    /\ probe.phase = "start"
    /\ Commit(w)
    /\ probe' = [probe EXCEPT !.phase = "run", !.wrote = w.log.writes # {}]

\* the user renames folder f; the rename callback runs
UserRenamesFolder(f, name) ==
    /\ folders[f].alive
    /\ \A g \in FolderIds :
           folders[g].alive /\ folders[g].parent = folders[f].parent => folders[g].name # name
    /\ Starts(RenamedFolder(Acting([World EXCEPT !.folders[f].name = name], 0, "rename"), 1, f,
                            PathOf(folders, f)))

\* the user deletes folder f; the delete callback runs
CrashDeletesFolder(f) ==
    /\ folders[f].alive
    /\ ChildFolders(World, f) = {}
    /\ Starts(DeletedFolder(Acting(DeleteFolder(World, f), 0, "delete"), 1, folders[f].name))

\* the user runs the rebuild or the link-refresh command
CrashRunsPass(cmd) == Starts(Spawn(World, 1, cmd, NewFrame(cmd, 0, 0, <<>>)))

\* the handler or pass goes on to its next suspension
CrashStep ==
    /\ probe.phase = "run"
    /\ Resume(1)
    /\ probe' = [probe EXCEPT !.wrote = @ \/ log'.writes # {}]

\* the handler or pass stops for good
Crash ==
    /\ probe.phase = "run"
    /\ probe.wrote
    /\ tasks[1].kind # "idle"
    /\ Commit([Acting(World, 0, "crash") EXCEPT !.tasks = [t \in {1} |-> IdleTask]])
    /\ probe' = [probe EXCEPT !.phase = "crashed"]

\* the rebuild, and after it the link refresh
Recovers(cmd) ==
    /\ probe.phase = "crashed"
    /\ probe.ran = (IF cmd = "CmdRebuild" THEN <<>> ELSE <<"CmdRebuild">>)
    /\ RunsPass(cmd)

CrashNext ==
    \/ probe.phase = "start" /\ UserChangesSuffix(OldSuffix)
    \/ \E f \in FolderIds, name \in {NameX, NameY, NameSkip} : UserRenamesFolder(f, name)
    \/ \E f \in FolderIds : CrashDeletesFolder(f)
    \/ \E cmd \in {"CmdRebuild", "CmdLinks"} : CrashRunsPass(cmd)
    \/ CrashStep
    \/ Crash
    \/ \E cmd \in {"CmdRebuild", "CmdLinks"} : Recovers(cmd)
    \/ probe.phase = "crashed" /\ TaskStep(1)

SpecCrash == CrashInit /\ [][CrashNext]_vars

(***************************************************************************)
(* Specification SpecFail: a vault of FailFolders folders, each with its   *)
(* hub under the expected name but with other content, and a note without  *)
(* its link.  The storage rejects every change of one of the documents, or *)
(* of none.  The user runs one command.                                    *)
(* Specification SpecPrev: the same, with or without a suffix change       *)
(* pending; with one pending the hubs have the old suffix or the new one.  *)
(***************************************************************************)
FailFolders == 2

\* the vault, the previous suffix being one of prevs
FailStart(prevs) ==
    /\ folders \in StartTrees(FailFolders, {NameX, NameY})
    /\ listing = Ascending(FailFolders)
    /\ settings \in {[LiveSettings EXCEPT !.previousHubSuffix = prev] : prev \in prevs}
    /\ \E d \in 0..(2 * FailFolders), sfx \in {settings.hubSuffix, settings.previousHubSuffix} :
        files = [x \in 1..(2 * FailFolders) |->
                    [state |-> IF x = d THEN "denied" ELSE "live",
                     folder |-> IF x <= FailFolders THEN x ELSE x - FailFolders,
                     base |-> IF x <= FailFolders
                              THEN getExpectedHubNameForFolder(folders, listing, x,
                                      [settings EXCEPT !.hubSuffix = sfx])
                              ELSE <<"n">>,
                     content |-> <<TextLine>>]]
    /\ saved = settings
    /\ locks = NoLocks
    /\ now = 0
    /\ tasks = [t \in {1} |-> IdleTask]
    /\ log = EnvLog
    /\ build = "App"
    /\ probe = [commands |-> 1]

FailInit == FailStart({<<"_">>})

PrevInit == FailStart({<<"_">>, OldSuffix})

FailNext ==
    \/ \E cmd \in Commands : UserRuns(cmd)
    \/ LiveStep

SpecFail == FailInit /\ [][FailNext]_vars

SpecPrev == PrevInit /\ [][FailNext]_vars

(***************************************************************************)
(* Specification SpecWait: commands in a vault where      the hub of the     *)
(* folder X is missing or has the name X_2, so that waitForNumberedHub     *)
(* for X uses up its attempts.                                             *)
(***************************************************************************)
\* folder 1 is X, folder 2 is X/Y; file 1 is X's hub, file 2 is Y's hub Y_
\* without a parent link, files 3 and 4 are the notes of X and of Y
WaitInit ==
    /\ folders = <<[alive |-> TRUE, name |-> NameX, parent |-> 0, ctime |-> 1],
                   [alive |-> TRUE, name |-> NameY, parent |-> 1, ctime |-> 2]>>
    /\ listing = <<1, 2>>
    /\ settings = LiveSettings
    /\ \E hubX \in {"free", "live"}, hubY \in {"free", "live"} :
        files = <<[state |-> hubX, folder |-> 1, base |-> <<"X", "_", "2">>,
                   content |-> HubContentLines(NoTarget)],
                  [state |-> hubY, folder |-> 2, base |-> <<"Y", "_">>,
                   content |-> HubContentLines(NoTarget)],
                  SettledNote(folders, listing, settings, 1),
                  SettledNote(folders, listing, settings, 2),
                  FreeFile, FreeFile>>
    /\ saved = settings
    /\ locks = NoLocks
    /\ now = 0
    /\ tasks = [t \in {1} |-> IdleTask]
    /\ log = EnvLog
    /\ build = "App"
    /\ probe = [commands |-> MaxCommands]

SpecWait == WaitInit /\ [][FailNext]_vars

(***************************************************************************)
(* Specification SpecRemove: one command in a vault with documents of hub  *)
(* names and of names close to them, in a folder, in the root and in an    *)
(* excluded folder.                                                        *)
(***************************************************************************)
RemoveNames ==
    {<<"X", "_">>, <<"X", "_", "1">>, <<"X", "_", "1", "2">>, <<"X", "_", "1", "a">>,
     <<"X">>, <<"X">> \o OldSuffix, <<"Y", "_">>, <<"T", "_">>}

\* folder 1 is X, folder 2 is X/Y, folder 3 is the excluded T; files 1 and 2
\* have any of the names in any of the folders or in the root, file 3 is the
\* note n of X with its hub link
RemoveInit ==
    /\ folders = <<[alive |-> TRUE, name |-> NameX, parent |-> 0, ctime |-> 1],
                   [alive |-> TRUE, name |-> NameY, parent |-> 1, ctime |-> 2],
                   [alive |-> TRUE, name |-> NameSkip, parent |-> 0, ctime |-> 3]>>
    /\ listing = <<1, 2, 3>>
    /\ settings \in {[LiveSettings EXCEPT !.previousHubSuffix = prev] :
                        prev \in {<<"_">>, OldSuffix}}
    /\ \E f1 \in 0..3, f2 \in 0..3, b1 \in RemoveNames, b2 \in RemoveNames :
        /\ f1 # f2 \/ b1 # b2
        /\ files = <<[state |-> "live", folder |-> f1, base |-> b1,
                      content |-> HubContentLines(NoTarget)],
                     [state |-> "live", folder |-> f2, base |-> b2,
                      content |-> <<LinkTo(<<"X", "_">>), EmptyLine, TextLine>>],
                     SettledNote(folders, listing, settings, 1)>>
    /\ saved = settings
    /\ locks = NoLocks
    /\ now = 0
    /\ tasks = [t \in {1} |-> IdleTask]
    /\ log = EnvLog
    /\ build = "App"
    /\ probe = [commands |-> 1, before |-> files]

SpecRemove == RemoveInit /\ [][FailNext]_vars

(***************************************************************************)
(* Specification SpecAgree: the rebuild, the link refresh and the rebuild  *)
(* again, in a vault without hubs, with parentLinkForSubfolderHubs on and  *)
(* off.                                                                    *)
(***************************************************************************)
AgreeFolders == 2

AgreePasses == <<"CmdRebuild", "CmdLinks", "CmdRebuild">>

AgreeInit ==
    /\ folders \in StartTrees(AgreeFolders, {NameX, NameY})
    /\ listing = Ascending(AgreeFolders)
    /\ settings \in {[LiveSettings EXCEPT !.parentLinkForSubfolderHubs = on] : on \in BOOLEAN}
    /\ files = [x \in 1..(2 * AgreeFolders) |-> FreeFile]
    /\ saved = settings
    /\ locks = NoLocks
    /\ now = 0
    /\ tasks = [t \in {1} |-> IdleTask]
    /\ log = EnvLog
    /\ build = "App"
    /\ probe = [ran |-> 0, before |-> files]

\* the user runs the next of the three passes, the one before it having ended
AgreePass ==
    /\ tasks[1].kind = "idle"
    /\ probe.ran < Len(AgreePasses)
    /\ Commit(Spawn(World, 1, AgreePasses[probe.ran + 1],
                    NewFrame(AgreePasses[probe.ran + 1], 0, 0, <<>>)))
    /\ probe' = [ran |-> probe.ran + 1, before |-> files]

AgreeNext == AgreePass \/ TaskStep(1)

SpecAgree == AgreeInit /\ [][AgreeNext]_vars

\* ---------------------------------------------------------------------
\* Restore to default: the settings tab assigns a new object to
\* plugin.settings, while registerVaultEvents read plugin.settings once, in
\* onload, and hands that object to every handler.  settings is the object
\* plugin.settings refers to, which the commands read and write;
\* probe.registered is the object the handlers were registered with, the
\* same object until the first restore.

RestoreEvents == 2

RestoreInit ==
    /\ folders = [f \in 1..CmdFolders |->
                      IF f = 1 THEN [alive |-> TRUE, name |-> NameX, parent |-> 0, ctime |-> 1]
                      ELSE NoFolder]
    /\ listing = Ascending(CmdFolders)
    /\ settings \in {LiveSettings, DefaultSettings}
    /\ files = SettledFiles(folders, listing, settings, 1, LiveFiles - 1)
    /\ saved = settings
    /\ locks = NoLocks
    /\ now = 0
    /\ tasks = [t \in 1..LiveTasks |-> IdleTask]
    /\ log = EnvLog
    /\ build = "App"
    /\ probe = [left |-> RestoreEvents, commands |-> MaxCommands, restored |-> FALSE,
                registered |-> settings]

\* the world as a handler sees it: the settings it was registered with
Registered == [World EXCEPT !.settings = probe.registered]

\* a step of a handler ends: its writes to its settings object stay in that
\* object, plugin.settings is another object once restored
CommitHandler(w, spent) ==
    /\ Commit([w EXCEPT !.settings = IF probe.restored THEN settings ELSE w.settings])
    /\ probe' = [probe EXCEPT !.left = @ - spent, !.registered = w.settings]

\* a step of a command ends: it wrote this.settings
CommitCommand(w, spent) ==
    /\ Commit(w)
    /\ probe' = [probe EXCEPT !.commands = @ - spent,
                              !.registered = IF probe.restored THEN @ ELSE w.settings]

\* the confirm button of RestoreConfirmModal
RestoreToDefault ==
    /\ probe.commands > 0
    /\ \A t \in DOMAIN tasks : tasks[t].kind = "idle"
    /\ Commit(saveSettings(Acting([World EXCEPT !.settings = DefaultSettings], 0, "restore")))
    /\ probe' = [probe EXCEPT !.commands = @ - 1, !.restored = TRUE]

RestoreRuns(cmd) ==
    /\ probe.commands > 0
    /\ \A t \in DOMAIN tasks : tasks[t].kind \notin Commands
    /\ IdleTasks # {}
    /\ CommitCommand(Spawn(World, Min(IdleTasks), cmd, NewFrame(cmd, 0, 0, <<>>)), 1)

RestoreCreatesNote(g) ==
    LET x == Min({y \in DOMAIN files : files[y].state = "free"})
        made == [Registered EXCEPT !.files[x] =
                    [state |-> "live", folder |-> g, base |-> <<"n">>,
                     content |-> <<TextLine>>]]
    IN  /\ probe.left > 0
        /\ IdleTasks # {}
        /\ \E y \in DOMAIN files : files[y].state = "free"
        /\ folders[g].alive
        /\ FileAt(World, PathOf(folders, g) \o <<<<"n">>>>) = 0
        /\ CommitHandler(CreatedFile(Acting(made, 0, "create"), Min(IdleTasks), x), 1)

RestoreStep(t) ==
    /\ tasks[t].kind # "idle"
    /\ IF tasks[t].kind \in Commands
       THEN CommitCommand(Run(Acting(World, t, tasks[t].kind), t), 0)
       ELSE CommitHandler(Run(Acting(Registered, t, tasks[t].kind), t), 0)

RestoreNext ==
    \/ \E g \in FolderIds : RestoreCreatesNote(g)
    \/ \E cmd \in Commands : RestoreRuns(cmd)
    \/ RestoreToDefault
    \/ \E t \in DOMAIN tasks : RestoreStep(t)

SpecRestore == RestoreInit /\ [][RestoreNext]_vars

(***************************************************************************)
(* Specification SpecRace: live sync.  Folder 1 is in the vault with its   *)
(* hub; the user creates RaceEvents folders, the second while the handler  *)
(* of the first may be suspended.  The creations are recorded, to run the  *)
(* same handlers one after the other.                                      *)
(***************************************************************************)
RaceFolders == 3
RaceEvents == 2

\* the vault before the creations, folder 1 having this name
RaceStart(name) ==
    LET fs == [f \in 1..RaceFolders |->
                  IF f = 1 THEN [alive |-> TRUE, name |-> name, parent |-> 0, ctime |-> 1]
                  ELSE NoFolder]
    IN  [folders |-> fs, files |-> SettledFiles(fs, Ascending(RaceFolders), LiveSettings, 1,
                                                 RaceFolders + 1),
         listing |-> Ascending(RaceFolders), settings |-> LiveSettings, saved |-> LiveSettings,
         locks |-> NoLocks, now |-> 0, tasks |-> [t \in 1..RaceEvents |-> IdleTask],
         log |-> EnvLog, build |-> "App", thrown |-> FALSE, blocked |-> FALSE]

RaceInit ==
    /\ \E name \in {NameX, NameY} :
        /\ folders = RaceStart(name).folders
        /\ files = RaceStart(name).files
    /\ listing = Ascending(RaceFolders)
    /\ settings = LiveSettings
    /\ saved = settings
    /\ locks = NoLocks
    /\ now = 0
    /\ tasks = [t \in 1..RaceEvents |-> IdleTask]
    /\ log = EnvLog
    /\ build = "App"
    /\ probe = [events |-> <<>>]

\* the folder can be created in world w
CanMake(w, e) ==
    /\ \E g \in DOMAIN w.folders : w.folders[g].ctime = 0
    /\ (IF e.parent = 0 THEN TRUE ELSE w.folders[e.parent].alive)
    /\ FolderAt(w, PathOf(w.folders, e.parent) \o <<e.name>>) = -1

\* world w after the user has created the folder and the create callback has
\* started onFolderCreate as task t
Made(w, t, e) ==
    LET f == Min({g \in DOMAIN w.folders : w.folders[g].ctime = 0})
    IN  CreatedFolder(Acting([w EXCEPT !.folders[f] =
                                  [alive |-> TRUE, name |-> e.name, parent |-> e.parent,
                                   ctime |-> f]], 0, "create"), t, f)

RaceCreatesFolder(e) ==
    /\ Len(probe.events) < RaceEvents
    /\ IdleTasks # {}
    /\ CanMake(World, e)
    /\ Commit(Made(World, Min(IdleTasks), e))
    /\ probe' = [probe EXCEPT !.events = Append(@, e)]

RaceNext ==
    \/ \E name \in {NameX, NameY}, parent \in {0} \cup FolderIds :
            RaceCreatesFolder([name |-> name, parent |-> parent])
    \/ LiveStep

SpecRace == RaceInit /\ [][RaceNext]_vars

(***************************************************************************)
(* Specification SpecEcho: the notifications of the engine's own writes.   *)
(* The vault emits a create or rename notification for every document the  *)
(* engine creates or renames; it is delivered at any later time, before or *)
(* after the write lock has expired, and starts a handler as the user's    *)
(* do.  The user runs one full pass, with live sync on, with or without a  *)
(* suffix change pending, and changes nothing else.                        *)
(***************************************************************************)
EchoFolders == 2
EchoTasks == 2

EchoInit ==
    /\ folders \in StartTrees(EchoFolders, {NameX})
    /\ listing = Ascending(EchoFolders)
    /\ settings \in {[LiveSettings EXCEPT !.hubSuffix = s] : s \in {<<"_">>, OldSuffix}}
    /\ files \in StartFiles(folders, EchoFolders, <<"_">>)
    /\ saved = settings
    /\ locks = NoLocks
    /\ now = 0
    /\ tasks = [t \in 1..EchoTasks |-> IdleTask]
    /\ log = EnvLog
    /\ build \in {"App", "Vault"}
    /\ probe = [commands |-> 1, pending |-> {}, handled |-> FALSE]

\* the notifications the vault emits for the step taken: the documents created
\* and those renamed
Echoes ==
    {[x |-> x, kind |-> "create"] :
        x \in {y \in DOMAIN files : files[y].state = "free" /\ files'[y].state = "live"}}
    \cup {[x |-> x, kind |-> "rename"] :
        x \in {y \in DOMAIN files : /\ files[y].state = "live" /\ files'[y].state = "live"
                                    /\ files[y].base # files'[y].base}}

\* a handler or pass goes on; the vault emits the notifications of its writes
EchoStep ==
    /\ \E t \in DOMAIN tasks : Resume(t)
    /\ probe' = [probe EXCEPT !.pending = @ \cup Echoes]

\* the callback of a notification runs, in world w, for a document that is
\* still there
Echoed(w, t, n) ==
    IF ~Live(w, n.x) THEN w
    ELSE IF n.kind = "create" THEN CreatedFile(w, t, n.x)
    ELSE RenamedFile(w, t, n.x)

\* a notification of an engine write is delivered
EchoDeliver ==
    /\ IdleTasks # {}
    /\ \E n \in probe.pending :
        /\ Commit(Echoed(Acting(World, 0, n.kind), Min(IdleTasks), n))
        /\ probe' = [probe EXCEPT !.pending = (@ \ {n}) \cup Echoes,
                                  !.handled = @ \/ IdleTasks' # IdleTasks]

\* WRITE_LOCK_MS pass: every entry of the lock map has expired
TimePasses ==
    /\ locks # NoLocks
    /\ Commit([Acting(World, 0, "tick") EXCEPT !.locks = NoLocks])
    /\ UNCHANGED probe

EchoNext ==
    \/ \E cmd \in {"CmdRebuild", "CmdLinks"} : UserRuns(cmd)
    \/ EchoStep
    \/ EchoDeliver
    \/ TimePasses

SpecEcho == EchoInit /\ [][EchoNext]_vars

(***************************************************************************)
(* Specification SpecLock: the write lock alone.  Paths are marked and      *)
(* looked up, LockOps times in all, while time passes.                      *)
(***************************************************************************)
LockOps == 4

LockPaths == {<<NameX>>, <<NameY>>}

LockInit ==
    /\ folders = [f \in {} |-> NoFolder]
    /\ listing = <<>>
    /\ settings = DefaultSettings
    /\ files = NoFiles
    /\ saved = settings
    /\ locks = NoLocks
    /\ now = 0
    /\ tasks = NoTasks
    /\ log = EnvLog
    /\ build = "App"
    /\ probe = [left |-> LockOps, path |-> <<>>, result |-> FALSE,
                last |-> [p \in LockPaths |-> -1]]

\* setWriteLock(path)
Marks(path) ==
    /\ probe.left > 0
    /\ Commit(setWriteLock(Acting(World, 0, "mark"), path))
    /\ probe' = [probe EXCEPT !.left = @ - 1, !.path = path, !.last[path] = now]

\* isWriteLocked(path)
LooksUp(path) ==
    /\ probe.left > 0
    /\ Commit(LockChecked(Acting(World, 0, "lookup"), path))
    /\ probe' = [probe EXCEPT !.left = @ - 1, !.path = path,
                              !.result = isWriteLocked(World, path)]

LockNext ==
    \/ \E path \in LockPaths : Marks(path)
    \/ \E path \in LockPaths : LooksUp(path)
    \/ Tick

SpecLock == LockInit /\ [][LockNext]_vars

(***************************************************************************)
(* Specification SpecPlace: upsertHubLinkInNote called twice on one        *)
(* document: the hub of a folder under the root, the hub of a folder with  *)
(* a parent, a note under the root, in a folder, in an excluded folder;    *)
(* for every content of up to PlaceLines lines and every setting of the    *)
(* three link options.                                                     *)
(***************************************************************************)
PlaceLines == 4

HeadingLine == Line(FALSE, "heading", NoTarget, FALSE)

PlaceContents ==
    UNION {[1..k -> {EmptyLine, LinkTo(<<"X", "_">>), SepLine, TextLine, IndentedLine,
                     HeadingLine}] : k \in 1..PlaceLines}

\* folder 1 is X with its hub X_ (file 1), folder 2 is X/Y with its hub Y_
\* (file 2), folder 3 is the excluded T; file 3 is the note n
PlaceInit ==
    /\ folders = <<[alive |-> TRUE, name |-> NameX, parent |-> 0, ctime |-> 1],
                   [alive |-> TRUE, name |-> NameY, parent |-> 1, ctime |-> 2],
                   [alive |-> TRUE, name |-> NameSkip, parent |-> 0, ctime |-> 3]>>
    /\ listing = <<1, 2, 3>>
    /\ settings \in {[DefaultSettings EXCEPT !.insertSeparatorAfterHubLink = sep,
                                              !.removeHiddenBlink = blink,
                                              !.autoHideHubLinks = hide,
                                              !.autoCreateSuppressedUntilBuildRefresh = FALSE] :
                        sep \in BOOLEAN, blink \in BOOLEAN, hide \in BOOLEAN}
    /\ \E x \in 1..3, at \in {0, 1, 3}, c \in PlaceContents :
        /\ x # 3 => at = 1
        /\ files = <<[state |-> "live", folder |-> 1, base |-> <<"X", "_">>,
                      content |-> IF x = 1 THEN c ELSE HubContentLines(NoTarget)],
                     [state |-> "live", folder |-> 2, base |-> <<"Y", "_">>,
                      content |-> IF x = 2 THEN c ELSE HubContentLines(<<"X", "_">>)],
                     [state |-> "live", folder |-> at, base |-> <<"n">>,
                      content |-> IF x = 3 THEN c ELSE <<TextLine>>]>>
        /\ probe = [subject |-> x, calls |-> 0, before |-> c]
    /\ saved = settings
    /\ locks = NoLocks
    /\ now = 0
    /\ tasks = [t \in {1} |-> IdleTask]
    /\ log = EnvLog
    /\ build = "App"

\* upsertHubLinkInNote(vault, note, settings) is called on the document
CallsUpsert ==
    /\ tasks[1].kind = "idle"
    /\ probe.calls < 2
    /\ Commit(Spawn(World, 1, "Upsert", NewFrame("Upsert", 0, probe.subject, <<>>)))
    /\ probe' = [probe EXCEPT !.calls = @ + 1, !.before = files[probe.subject].content]

PlaceNext == CallsUpsert \/ TaskStep(1)

SpecPlace == PlaceInit /\ [][PlaceNext]_vars

(***************************************************************************)
(* Claims.                                                                 *)
(***************************************************************************)
\* the name group of f, as a set, and the rank of f in it by creation time
NameGroup(fs, f, s) ==
    {g \in DOMAIN fs : NonExcluded(fs, g, s) /\ fs[g].name = fs[f].name}

RankIn(fs, f, s) ==
    1 + Cardinality({g \in NameGroup(fs, f, s) : fs[g].ctime < fs[f].ctime})

DistinctCtimes(fs, G) == \A g, h \in G : g # h => fs[g].ctime # fs[h].ctime

\* C7: in a name group of n > 1 non-excluded containers with pairwise distinct
\* creation times the member with the k-th smallest creation time is expected
\* to be named name+suffix+k, whatever the listing order; a group of one is
\* expected to be named name+suffix.
C7_OrdinalByCreationTime ==
    \A f \in DOMAIN probe :
        (NonExcluded(folders, f, settings)
         /\ DistinctCtimes(folders, NameGroup(folders, f, settings)))
        => probe[f] =
            IF Cardinality(NameGroup(folders, f, settings)) > 1
            THEN folders[f].name \o settings.hubSuffix
                    \o ToStr(RankIn(folders, f, settings))
            ELSE folders[f].name \o settings.hubSuffix

\* a group of three listed in an order other than creation order, resolved
C7_Witness ==
    \E f \in DOMAIN probe :
        /\ NonExcluded(folders, f, settings)
        /\ Cardinality(NameGroup(folders, f, settings)) = 3
        /\ RankIn(folders, f, settings) = 2
        /\ listing[1] = 3
        /\ folders[listing[1]].name = folders[f].name
        /\ NonExcluded(folders, listing[1], settings)

HubOf(f) == findHubInFolder(World, f)

RunDone(n) == probe.runs = n /\ tasks[1].kind = "idle"

C10_RebuildNamesEveryHub ==
    RunDone(1) =>
        \A f \in FolderIds :
            NonExcluded(folders, f, settings) =>
                /\ HubOf(f) # 0
                /\ files[HubOf(f)].base = Expected(World, f)

\* the lines after a leading separator block: blank lines, a --- line that is not
\* the last line, blank lines; the lines themselves as they are
AfterSeparatorBlock(rest) ==
    LET i == LeadingBlanks(rest) + 1
    IN  IF i >= Len(rest) \/ rest[i].kind # "sep" THEN rest
        ELSE SliceJoin(rest, i + LeadingBlanks(Tail0(rest, i)))

\* the content of a note after its leading block of blank lines, hub links and,
\* when a separator is configured, the separator
TrailingContent(content, s) ==
    LET rest == SliceJoin(content, stripLeadingHubLinkLines(content, s))
    IN  IF s.insertSeparatorAfterHubLink THEN AfterSeparatorBlock(rest) ELSE rest

\* C5: after upsert on a leaf whose folder's hub is stable the note is exactly
\* one link line to the expected hub name, the configured blank lines and
\* separator, and then the original content after its leading block, unchanged.
C5_UpsertKeepsTrailingContent ==
    (probe.calls = 1 /\ tasks[1].kind = "idle") =>
        files[2].content =
            (IF settings.removeHiddenBlink THEN <<EmptyLine>> ELSE <<>>)
            \o <<Line(FALSE, "link", Expected(World, 1), settings.autoHideHubLinks),
                 EmptyLine>>
            \o (IF settings.insertSeparatorAfterHubLink
                THEN <<SepLine, EmptyLine>> ELSE <<>>)
            \o TrailingContent(probe.original, settings)

DeleteDone == probe.deleted # 0 /\ tasks[1].kind = "idle"

\* the name group of the deleted folder without it, oldest first
Survivors == SelectSeq(probe.before, LAMBDA g : g # probe.deleted)

HubNamed(f, name) == HubOf(f) # 0 /\ files[HubOf(f)].base = name

\* C8: of three folders of one name with the hubs X_1, X_2, X_3, after the middle
\* one is deleted and the delete handler has run the third one's hub is X_2 and
\* the first one's X_1; in general the hubs of the n-1 survivors of a group of
\* n >= 3 are numbered 1..n-1 in creation order.
C8_DeleteRenumbers ==
    (DeleteDone /\ Len(probe.before) >= 3) =>
        \A k \in 1..Len(Survivors) :
            HubNamed(Survivors[k],
                     folders[Survivors[k]].name \o settings.hubSuffix \o ToStr(k))

\* the middle one of three was deleted, and the third one's hub was renamed
C8_Witness ==
    /\ DeleteDone
    /\ Len(probe.before) = 3
    /\ probe.before[2] = probe.deleted
    /\ HubNamed(probe.before[3], <<"X", "_", "2">>)

\* C9: of two folders of one name with the hubs Y_1 and Y_2, after one is deleted
\* and the delete handler has run the survivor's hub has the undecorated name Y_.
C9_DeleteDemotes ==
    (DeleteDone /\ Len(probe.before) = 2) =>
        HubNamed(Survivors[1], folders[Survivors[1]].name \o settings.hubSuffix)

\* the older one of two was deleted, the survivor's hub Y_2 is now Y_
C9_Witness ==
    /\ DeleteDone
    /\ Len(probe.before) = 2
    /\ probe.before[1] = probe.deleted
    /\ folders[probe.deleted].name = NameY
    /\ HubNamed(Survivors[1], <<"Y", "_">>)

\* the documents in a folder that are named as a hub of it, undecorated or numbered
HubsIn(f) ==
    {x \in ChildFiles(World, f) :
        \/ files[x].base = getHubNameForFolder(folders[f].name, settings.hubSuffix)
        \/ NumberedHubPatternTest(folders[f].name, settings.hubSuffix, files[x].base)}

\* C1: in every reachable state, whatever the interleaving of the handlers, no
\* non-excluded folder holds more than one document named as its hub,
\* undecorated or numbered.
C1_AtMostOneHub ==
    \A f \in FolderIds :
        NonExcluded(folders, f, settings) => Cardinality(HubsIn(f)) <= 1

AllIdle == \A t \in DOMAIN tasks : tasks[t].kind = "idle"

\* the hub links among the leading lines of a content that upsert strips
LeadingLinks(content) ==
    LET n == stripLeadingHubLinkLines(content, settings)
    IN  SelectSeq(SubSeq(content, 1, n), LAMBDA l : ~IsBlank(l))

\* C2: with live sync on and not suppressed, after the user's changes, once every
\* handler has completed, every non-excluded folder has its hub under the
\* expected name and every leaf in it has exactly one leading link, to that hub.
C2_SettlesWhenHandlersDone ==
    (AllIdle /\ probe.left < MaxEvents) =>
        \A f \in FolderIds :
            NonExcluded(folders, f, settings) =>
                /\ HubNamed(f, Expected(World, f))
                /\ \A x \in ChildFiles(World, f) \ HubsIn(f) :
                        LeadingLinks(files[x].content) = <<LinkTo(Expected(World, f))>>

LiveKinds ==
    {"onFolderCreate", "onFolderRename", "onFolderDelete", "onFileCreate",
     "onFileRename", "Startup"}

\* the step creates a document: the only documents the engine creates are hubs
CreatesHub == "create" \in log'.writes

\* the step leaves some document with a leading hub link it did not have
InsertsLink ==
    \E x \in DOMAIN files :
        /\ files'[x].state = "live"
        /\ \E i \in 1..Len(LeadingLinks(files'[x].content)) :
              \/ files[x].state # "live"
              \/ \A j \in 1..Len(LeadingLinks(files[x].content)) :
                    LeadingLinks(files[x].content)[j] # LeadingLinks(files'[x].content)[i]

\* C3: while autoCreateSuppressedUntilBuildRefresh is set, that is from a remove
\* command until the next rebuild command, no step of a live-sync handler or of
\* the startup pass creates a hub or inserts a hub link.
C3_NothingMadeWhileSuppressed ==
    [][(settings.autoCreateSuppressedUntilBuildRefresh /\ log'.actor # 0
            /\ log'.kind \in LiveKinds)
        => (~CreatesHub /\ ~InsertsLink)]_vars

\* the path of the notification just delivered was marked written less than
\* WRITE_LOCK_MS before
WasLocked ==
    /\ probe'.left # probe.left
    /\ probe'.path \in DOMAIN locks
    /\ now - locks[probe'.path] < WRITE_LOCK_MS

HubsWithSuffix(f, suffix) ==
    {x \in ChildFiles(World, f) :
        \/ files[x].base = getHubNameForFolder(folders[f].name, suffix)
        \/ NumberedHubPatternTest(folders[f].name, suffix, files[x].base)}

\* the notes that are no hubs, in non-excluded folders
Leaves ==
    {x \in DOMAIN files :
        /\ files[x].state = "live"
        /\ files[x].folder # 0
        /\ NonExcluded(folders, files[x].folder, settings)
        /\ x \notin HubsIn(files[x].folder)}

PassesDone(ran) == tasks[1].kind = "idle" /\ probe.ran = ran /\ settings.hubSuffix # probe.old

\* C11: after the suffix is changed from s to s' and the rebuild has run, no
\* non-excluded folder holds a hub with suffix s, each holds one with suffix s',
\* and the previous suffix is still s; after the link refresh that follows, every
\* leaf's leading link is the one with suffix s', none with suffix s is left, and
\* the previous suffix is s'.
C11_SuffixMigration ==
    /\ PassesDone(<<"CmdRebuild">>) =>
        /\ settings.previousHubSuffix = probe.old
        /\ \A f \in FolderIds :
              NonExcluded(folders, f, settings) =>
                  /\ HubsWithSuffix(f, probe.old) = {}
                  /\ HubsWithSuffix(f, settings.hubSuffix) # {}
    /\ PassesDone(<<"CmdRebuild", "CmdLinks">>) =>
        /\ settings.previousHubSuffix = settings.hubSuffix
        /\ \A x \in Leaves :
              /\ LeadingLinks(files[x].content) = <<LinkTo(Expected(World, files[x].folder))>>
              /\ \A i \in 1..Len(files[x].content) :
                    ~targetMatchesHubSuffixPattern(
                        extractWikiLinkTarget(files[x].content[i]), probe.old)

C11_Witness ==
    /\ PassesDone(<<"CmdRebuild", "CmdLinks">>)
    /\ Leaves # {}
    /\ \E x \in DOMAIN files : files[x].state = "dead"

\* a segment of the path is an excluded name or, when dot folders are skipped,
\* starts with a dot
HasExcludedSegment(path) ==
    \E i \in 1..Len(path) :
        \/ path[i] \in settings.skipFolderNames
        \/ settings.skipDotFolders /\ Head(path[i]) = "."

Delivered == probe'.left # probe.left

\* C13: a handler (folder created, renamed, deleted; document created, renamed)
\* invoked while realTimeUpdating is off or autoCreateSuppressedUntilBuildRefresh
\* is on does nothing: no task goes on, no document, folder or setting changes
\* and the configuration is not written, also when a suffix migration is pending.
C13_PausedHandlerDoesNothing ==
    [][(Delivered /\ (~settings.realTimeUpdating
                        \/ settings.autoCreateSuppressedUntilBuildRefresh))
        => (tasks' = tasks /\ files' = files /\ folders' = folders /\ saved' = saved
                /\ settings' = settings /\ log'.writes = {})]_vars

C13_Witness ==
    /\ probe.left < GateEvents
    /\ ~probe.locked
    /\ log.actor = 0
    /\ log.kind = "delete"
    /\ ~settings.realTimeUpdating
    /\ settings.hubSuffix # settings.previousHubSuffix
    /\ build = "Vault"

\* the engine wrote the path, WRITE_LOCK_MS or more ago
Expired(w, path) ==
    path \in DOMAIN w.locks /\ w.now - w.locks[path] >= WRITE_LOCK_MS

\* the world in which the engine never wrote the path
NeverWritten(w, path) ==
    [w EXCEPT !.locks = [p \in (DOMAIN w.locks) \ {path} |-> w.locks[p]]]

\* two worlds that differ at most in entries of the lock map that have expired
SameOutcome(a, b) ==
    /\ [a EXCEPT !.locks = NoLocks] = [b EXCEPT !.locks = NoLocks]
    /\ \A p \in DOMAIN a.locks \cup DOMAIN b.locks :
           /\ isWriteLocked(a, p) = isWriteLocked(b, p)
           /\ isWriteLocked(a, p) => a.locks[p] = b.locks[p]

\* C14: once WRITE_LOCK_MS has passed since the engine's last setWriteLock on a
\* path, a notification for the path (created, renamed) is processed as if the
\* engine had never written the path: the callback leaves the world it leaves
\* when the lock map holds nothing for the path, expired entries aside.
C14_ExpiredLockIsNoLock ==
    IdleTasks # {} =>
        LET w == Acting(World, 0, "create")
            t == Min(IdleTasks)
        IN  /\ \A x \in DOMAIN files :
                   Live(w, x) /\ Expired(w, FilePath(w, x)) =>
                       /\ SameOutcome(CreatedFile(w, t, x),
                                      CreatedFile(NeverWritten(w, FilePath(w, x)), t, x))
                       /\ SameOutcome(RenamedFile(w, t, x),
                                      RenamedFile(NeverWritten(w, FilePath(w, x)), t, x))
            /\ \A f \in FolderIds :
                   Expired(w, PathOf(folders, f)) =>
                       SameOutcome(CreatedFolder(w, t, f),
                                   CreatedFolder(NeverWritten(w, PathOf(folders, f)), t, f))

\* a create notification for a document the engine wrote WRITE_LOCK_MS ago has
\* started the handler
C14_Witness ==
    /\ probe.left < GateEvents
    /\ probe.written
    /\ ~probe.locked
    /\ now = MaxNow
    /\ tasks[1].kind = "onFileCreate"

\* the content buildHubContent gives the hub of folder f
BuiltContent(f) ==
    HubContentLines(IF folders[f].parent # 0 /\ settings.parentLinkForSubfolderHubs
                    THEN Expected(World, folders[f].parent)
                    ELSE NoTarget)

\* C15: after a handler or full pass was stopped after one of its storage
\* operations, the rebuild followed by the link refresh, run alone, end with
\* every non-excluded folder holding exactly one hub, under its expected name
\* and with the built content, and every leaf holding exactly its correct link.
C15_FullPassesHealCrash ==
    (probe.phase = "crashed" /\ probe.ran = <<"CmdRebuild", "CmdLinks">>
            /\ tasks[1].kind = "idle") =>
        /\ \A f \in FolderIds :
              NonExcluded(folders, f, settings) =>
                  /\ Cardinality(HubsIn(f)) = 1
                  /\ HubNamed(f, Expected(World, f))
                  /\ files[HubOf(f)].content = BuiltContent(f)
        /\ \A x \in Leaves :
              LeadingLinks(files[x].content) = <<LinkTo(Expected(World, files[x].folder))>>

\* C16: when the storage rejects the change of one document during the rebuild
\* or the link refresh, the pass goes on with the others: when the rebuild has
\* ended every other hub holds the built content, and when the link refresh has
\* ended every other leaf holds its correct link.
C16_FailedItemSkipped ==
    /\ (AllIdle /\ log.kind = "CmdRebuild") =>
          \A f \in FolderIds :
              (NonExcluded(folders, f, settings) /\ HubOf(f) # 0 /\ ~Denied(World, HubOf(f)))
                  => files[HubOf(f)].content = BuiltContent(f)
    /\ (AllIdle /\ log.kind = "CmdLinks") =>
          \A x \in Leaves :
              LeadingLinks(files[x].content) = <<LinkTo(Expected(World, files[x].folder))>>

\* C17: a command (rebuild, link refresh, remove hubs, remove links) ends with
\* one summary notice, whether or not a storage operation of its pass failed.
C17_CommandReportsOnce ==
    [][\A t \in DOMAIN tasks :
          (tasks[t].kind \in Commands /\ tasks'[t].kind = "idle") => log'.notices = 1]_vars

\* the tasks suspended in waitForNumberedHub
Waiting == {t \in DOMAIN tasks : tasks[t].kind # "idle" /\ Top(World, t).op = "Wait"}

\* the folder's hub, if it has one under its expected name now, else 0
StableHub(f) ==
    IF HubOf(f) # 0 /\ files[HubOf(f)].base = Expected(World, f) THEN HubOf(f) ELSE 0

RECURSIVE Finish(_, _)
Finish(w, t) ==
    IF w.tasks[t].kind = "idle" \/ w.blocked THEN w ELSE Finish(Run(w, t), t)

\* the handlers of the recorded creations run one after the other, each to its
\* end before the next folder is created
RECURSIVE Sequential(_, _)
Sequential(w, events) ==
    IF events = <<>> THEN w
    ELSE Sequential(Finish(Made(w, 1, Head(events)), 1), Tail(events))

\* the documents of a vault: where they are, their names and contents
Documents(w) ==
    {[folder |-> w.files[x].folder, base |-> w.files[x].base, content |-> w.files[x].content] :
        x \in {y \in DOMAIN w.files : Live(w, y)}}

\* C19: when two handlers were in flight together, once both have ended the hub
\* names, hub contents and leaf links are those that the same two handlers
\* leave when they run one after the other.
C19_InterleavingAsSequential ==
    (AllIdle /\ Len(probe.events) = RaceEvents) =>
        Documents(World) = Documents(Sequential(RaceStart(folders[1].name), probe.events))

\* C20: once the user changes nothing more, the notifications of the engine's
\* own writes lead to finitely many further steps of the engine: from some
\* point on time passes and nothing else happens, no handler or pass takes a
\* step, so nothing is written, and no notification is delivered, also when
\* the pass runs with live sync on and a suffix change pending.
C20_WritesDieOut == <>[][log'.kind = "tick"]_vars

\* all is quiet after a handler that a notification of the engine's own write
\* started, the pass having run with a suffix change pending
C20_Witness ==
    /\ AllIdle
    /\ probe.pending = {}
    /\ probe.handled
    /\ probe.commands = 0
    /\ settings.hubSuffix = OldSuffix

\* the startup pass, started now as task t and run alone to its end
StartupAlone(t) == Finish(Spawn(World, t, "Startup", NewFrame("Startup", 0, 0, <<>>)), t)

\* C21: no operation of the engine creates, renames, moves or deletes a folder.
\* With no external change of the tree, the folders, their names, parents and
\* creation times and the storage's listing stay as they are through every step
\* of every handler, command and suffix migration, and the startup pass started
\* in any state leaves them as they are.
C21_EngineLeavesFolders ==
    /\ []((IdleTasks # {}) =>
            /\ StartupAlone(Min(IdleTasks)).folders = folders
            /\ StartupAlone(Min(IdleTasks)).listing = listing)
    /\ [][folders' = folders /\ listing' = listing]_vars

\* the handlers and a command have run and written: a hub was trashed, another
\* was created
C21_Witness ==
    /\ AllIdle
    /\ probe.left = 0
    /\ probe.commands = 0
    /\ \E x \in DOMAIN files : files[x].state = "dead"
    /\ \E x \in DOMAIN files : files[x].state = "live" /\ x > 2

\* the paths a storage operation that led from world a to world b affected: of
\* every document that differs, the path it had and the path it has
Affected(a, b) ==
    UNION {(IF a.files[x].state = "free" THEN {} ELSE {FilePath(a, x)}) \cup {FilePath(b, x)} :
            x \in {y \in DOMAIN a.files : a.files[y] # b.files[y]}}

\* every affected path was marked by setWriteLock at the time of world b
WriteMarked(a, b) ==
    \A p \in Affected(a, b) : p \in DOMAIN b.locks /\ b.locks[p] = b.now

\* task t of world w runs alone to its end, the clock advancing at every
\* suspension: every storage operation finds its paths marked since the task
\* was last resumed
RECURSIVE SegmentsMarked(_, _)
SegmentsMarked(w, t) ==
    IF w.tasks[t].kind = "idle" \/ w.blocked THEN TRUE
    ELSE LET check(a, b) == WriteMarked(a, b) /\ SegmentsMarked(b, t)
         IN  check([w EXCEPT !.now = @ + 1], Run([w EXCEPT !.now = @ + 1], t))

\* the operation is started as task t and runs alone to its end
StartMarked(t, frame) ==
    LET check(a, b) == WriteMarked(a, b) /\ SegmentsMarked(b, t)
    IN  check([World EXCEPT !.now = @ + 1],
              Spawn([World EXCEPT !.now = @ + 1], t, frame.op, frame))

\* the commands, the startup pass, the suffix migration and the bodies of the
\* handlers, on every folder and document of the vault
Operations ==
    {NewFrame(op, 0, 0, <<>>) : op \in Commands \cup {"Startup", "Migration"}}
    \cup {NewFrame("OnFolderCreate", f, 0, <<>>) : f \in {g \in FolderIds : folders[g].alive}}
    \cup {NewFrame("OnFolderRename", f, 0, old) :
            f \in {g \in FolderIds : folders[g].alive}, old \in {NameX, NameY}}
    \cup {NewFrame("OnFolderDelete", 0, 0, name) : name \in {NameX, NameY}}
    \cup {NewFrame("Upsert", 0, x, <<>>) : x \in {y \in DOMAIN files : Live(World, y)}}

\* C22: every create, modify, rename and trash of a document by the engine comes
\* after setWriteLock on the document's path with no suspension in between, and
\* a rename after setWriteLock on the old and on the new path: in every state,
\* whichever task goes on and whichever operation is started, each path a storage
\* operation affects was marked since the task last resumed.
C22_WritesAreMarked ==
    /\ \A t \in DOMAIN tasks : SegmentsMarked(World, t)
    /\ IdleTasks # {} => \A frame \in Operations : StartMarked(Min(IdleTasks), frame)

\* a renamed folder's hub was renamed and is locked under both names, after the
\* suffix was changed
C22_Witness ==
    /\ probe.phase = "run"
    /\ log.writes = {"rename"}
    /\ Cardinality(DOMAIN locks) >= 2
    /\ \E x \in DOMAIN files : files[x].state = "live" /\ FilePath(World, x) \in DOMAIN locks

\* the lock map holds for path q what it held
RecordKept(q) ==
    /\ (q \in DOMAIN locks') = (q \in DOMAIN locks)
    /\ q \in DOMAIN locks => locks'[q] = locks[q]

\* C23: isWriteLocked(path) is true exactly when the last setWriteLock(path) was
\* less than WRITE_LOCK_MS ago; a lookup that finds an older entry deletes it and
\* one that finds a younger entry keeps it; setWriteLock(path) stores the current
\* time, over whatever was stored; neither touches the entry of another path.
C23_LockLookup ==
    [][probe'.left # probe.left =>
        LET p == probe'.path
            last == probe.last[p]
        IN  /\ log'.kind = "lookup" =>
                  /\ probe'.result = (last >= 0 /\ now - last < WRITE_LOCK_MS)
                  /\ ~probe'.result => p \notin DOMAIN locks'
                  /\ probe'.result => RecordKept(p)
            /\ log'.kind = "mark" => (p \in DOMAIN locks' /\ locks'[p] = now)
            /\ \A q \in LockPaths \ {p} : RecordKept(q)]_vars

\* a lookup has found and deleted an entry WRITE_LOCK_MS old and has left the
\* entry of the other path
C23_Witness ==
    /\ log.kind = "lookup"
    /\ ~probe.result
    /\ probe.last[probe.path] >= 0
    /\ now - probe.last[probe.path] >= WRITE_LOCK_MS
    /\ probe.path \notin DOMAIN locks
    /\ locks # NoLocks

\* C24: the engine sets previousHubSuffix only in the step in which a
\* link-refresh pass ends after its last note, and then to hubSuffix.  No step
\* of a rebuild sets it, also not one that trashes the hubs of the old suffix,
\* and a link refresh that a rejected storage operation ends leaves it as it was.
C24_PreviousSuffixSetByLinkRefresh ==
    [][settings'.previousHubSuffix # settings.previousHubSuffix =>
        /\ log'.kind = "CmdLinks"
        /\ log'.notices = 1
        /\ tasks'[log'.actor].kind = "idle"
        /\ settings'.previousHubSuffix = settings.hubSuffix]_vars

\* a link refresh has ended on a rejected write, with the suffix change still
\* pending
C24_Witness ==
    /\ AllIdle
    /\ log.kind = "CmdLinks"
    /\ log.notices = 0
    /\ settings.previousHubSuffix = OldSuffix
    /\ \E x \in DOMAIN files : Denied(World, x)

\* a notification was just delivered to a handler that found live sync on, not
\* suppressed, and the suffix different from the previous suffix
MigrationDue ==
    /\ Delivered
    /\ ~probe'.locked
    /\ ~Paused(World)
    /\ MigrationPending(World)

\* the task has the full passes of the migration in flight
Migrating(task) ==
    /\ task.kind \in LiveKinds
    /\ task.stack # <<>>
    /\ task.stack[Len(task.stack)].op = "Migration"

\* C25: a handler that passes the flags while the suffix differs from the
\* previous suffix runs the rebuild and the link refresh in place of its own
\* path, and when it has returned the previous suffix equals the suffix, so that
\* the next handler takes its own path.
C25_HandlerRunsMigration ==
    [][/\ MigrationDue =>
            \/ \E t \in DOMAIN tasks : Migrating(tasks'[t])
            \/ ~MigrationPending(World)'
       /\ \A t \in DOMAIN tasks :
            (Migrating(tasks[t]) /\ tasks'[t].kind = "idle") => ~MigrationPending(World)']_vars

\* the handler of the one folder rename has returned, no suffix change pending
RenameHandled ==
    /\ probe.phase = "run"
    /\ tasks[1].kind = "idle"
    /\ log.kind \in {"rename", "onFolderRename"}
    /\ ~MigrationPending(World)

\* C26: when onFolderRename has returned for a folder renamed from A to B, live
\* sync on and not suppressed, every non-excluded folder named A or B (and, the
\* vault having been settled, every other) has exactly one hub, under its
\* expected name, and no document was created: the renamed folder's hub was
\* renamed.  This for every new name, an excluded one too.
C26_RenameRenumbersBothGroups ==
    RenameHandled =>
        /\ \A f \in FolderIds :
              NonExcluded(folders, f, settings) =>
                  (Cardinality(HubsIn(f)) = 1 /\ HubNamed(f, Expected(World, f)))
        /\ \A x \in DOMAIN files : x > CrashFolders + 1 => files[x].state = "free"

\* the document's content, and whether n calls of upsertHubLinkInNote on it
\* have returned
Document == files[probe.subject].content

Upserted(n) == probe.calls >= n /\ tasks[1].kind = "idle"

\* the first line below the first heading that is not blank; a blank line when
\* there is none
UnderHeading(c) ==
    LET dirIdx == HeadingIndex(c, 1)
        j == dirIdx + 1 + LeadingBlanks(Tail0(c, dirIdx))
    IN  IF j <= Len(c) THEN c[j] ELSE EmptyLine

TwoLinksUnderHeading(c) ==
    LET dirIdx == HeadingIndex(c, 1)
        j == dirIdx + 1 + LeadingBlanks(Tail0(c, dirIdx))
        k == j + 1 + LeadingBlanks(Tail0(c, j))
    IN  /\ dirIdx # 0
        /\ k <= Len(c)
        /\ extractWikiLinkTarget(c[j]) # NoTarget
        /\ extractWikiLinkTarget(c[k]) # NoTarget

NoteOutside ==
    /\ probe.subject = 3
    /\ files[3].folder = 0 \/ SkipFolder(World, files[3].folder)

\* the link getCorrectHubLinkForNote returned to the running upsertHubLinkInNote
Upserting == tasks[1].stack # <<>> /\ tasks[1].stack[1].pc \in {"read", "write"}

\* C28: for a note directly under the root and for a note in an excluded
\* folder getCorrectHubLinkForNote returns null, and when upsertHubLinkInNote
\* has returned the note does not begin with a hub link.
C28_NoLinkOutside ==
    NoteOutside =>
        /\ Upserting => tasks[1].stack[1].link = NoTarget
        /\ Upserted(1) => ~isHubLinkLine(Document[1], settings)

\* C29: upsertHubLinkInNote called a second time on a document, nothing having
\* changed since the first call returned, writes nothing: the content it
\* computes is the document's content; for every content and every setting of
\* autoHideHubLinks, removeHiddenBlink and insertSeparatorAfterHubLink.
C29_SecondUpsertWritesNothing ==
    (probe.calls = 2 /\ Upserted(2)) => (Document = probe.before /\ log.writes = {})

Suppressed == settings.autoCreateSuppressedUntilBuildRefresh

\* C30: autoCreateSuppressedUntilBuildRefresh, once true, becomes false only
\* in a step of the rebuild command: no handler, startup pass, link refresh,
\* toggle of a setting or other command clears it.
C30_OnlyRebuildClearsFlag ==
    [][(Suppressed /\ ~Suppressed') => log'.kind = "CmdRebuild"]_vars

\* C30, amended: the flag, once true, becomes false only in a step of the
\* rebuild command or of the link refresh command, which the toggle of "hide
\* links in notes" calls too; no handler, startup pass or remove command
\* clears it.
C30_OnlyPassCommandsClearFlag ==
    [][(Suppressed /\ ~Suppressed') =>
            /\ log'.kind \in {"CmdRebuild", "CmdLinks"}
            /\ tasks'[log'.actor].stack # <<>>
            /\ tasks'[log'.actor].stack[1].op = log'.kind
            /\ tasks[log'.actor].kind = "idle"]_vars

\* the hubs are removed, the startup pass has run while the flag was true, and
\* the flag is true
C30_Witness ==
    /\ Suppressed
    /\ AllIdle
    /\ probe.startup = "ran"
    /\ log.kind = "Startup"
    /\ probe.commands = MaxCommands - 1

\* C31: when the timer set in onload fires while
\* autoCreateSuppressedUntilBuildRefresh is true, a remove command having set
\* it since the load, runStartupRefresh writes nothing to the vault.
C31_StartupSkippedWhenSuppressed ==
    (Suppressed /\ AllIdle /\ probe.startup = "scheduled") =>
        /\ StartupAlone(Min(IdleTasks)).files = files
        /\ StartupAlone(Min(IdleTasks)).log.writes \subseteq {"config"}

\* runStartupRefresh is in flight in task t
StartingUp(t) == tasks[t].kind = "Startup"

\* C32: while runStartupRefresh runs realTimeUpdating is false and a handler
\* called in that time does nothing; when the pass ends, completed or stopped
\* by a rejected storage operation, realTimeUpdating has the value it had when
\* the pass started.
C32_StartupPausesLiveSync ==
    /\ [](\A t \in DOMAIN tasks : StartingUp(t) => ~settings.realTimeUpdating)
    /\ [][\A t \in DOMAIN tasks :
            /\ (StartingUp(t) /\ log'.actor = 0) =>
                    (tasks' = tasks /\ log'.writes = {} /\ locks' = locks)
            /\ (StartingUp(t) /\ tasks'[t].kind = "idle") =>
                    settings'.realTimeUpdating = tasks[t].stack[Len(tasks[t].stack)].flag]_vars

\* the pass was stopped by the document that rejects the change, live sync is
\* on again, and a folder was created while the pass ran without a hub made
C32_Witness ==
    /\ AllIdle
    /\ probe.startup = "ran"
    /\ log.kind = "Startup"
    /\ settings.realTimeUpdating
    /\ Denied(World, 2)
    /\ files[2].content = <<TextLine>>
    /\ \E f \in FolderIds : folders[f].alive /\ findHubInFolder(World, f) = 0

\* a rebuild or a link refresh has finished while X's hub is not under its
\* expected name: every waitForNumberedHub for X in it used up its attempts
WaitedInVain ==
    /\ AllIdle
    /\ log.kind \in {"CmdRebuild", "CmdLinks"}
    /\ ~HubNamed(1, Expected(World, 1))

\* a command that has started finishes with its notice
CommandsFinish ==
    [][\A t \in DOMAIN tasks :
          (tasks[t].kind \in Commands /\ tasks'[t].kind = "idle") => log'.notices >= 1]_vars

\* C33: when waitForNumberedHub has used up its attempts, building the hub
\* content, deriving a note's correct link and deriving a hub's parent link
\* neither reject nor block, they complete without the link, and the pass
\* goes on: Y's hub has no link to X's hub, and after a link refresh X's note
\* has no leading hub link.
C33_ProceedsWithoutLink ==
    /\ CommandsFinish
    /\ [](WaitedInVain =>
            /\ log.kind = "CmdLinks" => ~isHubLinkLine(files[3].content[1], settings)
            /\ Live(World, 2) => extractWikiLinkTarget(UnderHeading(files[2].content)) = NoTarget)

\* C33, amended: neither rejects nor blocks and the pass goes on; deriving a
\* note's correct link gives no link, so X's note loses its leading hub link
\* in a link refresh, while building the hub content and deriving the parent
\* link use the parent's expected hub name all the same: Y's hub links to X_.
C33_ProceedsAfterWait ==
    /\ CommandsFinish
    /\ [](WaitedInVain =>
            /\ log.kind = "CmdLinks" => ~isHubLinkLine(files[3].content[1], settings)
            /\ Live(World, 2) => UnderHeading(files[2].content) = LinkTo(Expected(World, 1)))

\* the link refresh has finished, X has the hub X_2, Y's hub links to X_
C33_Witness ==
    /\ WaitedInVain
    /\ log.kind = "CmdLinks"
    /\ log.notices = 1
    /\ Live(World, 1)
    /\ UnderHeading(files[2].content) = LinkTo(<<"X", "_">>)
    /\ files[3].content = <<TextLine>>

\* C34: getFoldersWithSameName orders the folders of one name by creation time
\* and, of equal creation times, by path, so the expected hub name of a folder
\* is the same in whatever order vault.getAllFolders lists the folders.
C34_OrdinalIndependentOfListing ==
    \A f \in DOMAIN probe : \A order \in Perms(FolderIds) :
        /\ getExpectedHubNameForFolder(folders, order, f, settings) = probe[f]
        /\ getFoldersWithSameName(folders, order, folders[f].name,
                                  pathSkipFromSettings(settings))
             = getFoldersWithSameName(folders, listing, folders[f].name,
                                      pathSkipFromSettings(settings))

\* the document is in a folder that is not excluded, and its name is the
\* folder's name, the suffix in use and then digits or nothing
NamedAsHub(file) ==
    LET p == IF file.folder = 0 THEN <<>>
             ELSE folders[file.folder].name \o OrUnderscore(settings.hubSuffix)
    IN  /\ file.folder # 0
        /\ ~SkipFolder(World, file.folder)
        /\ HasPrefix(file.base, p)
        /\ \A i \in (Len(p) + 1)..Len(file.base) : file.base[i] \in Digits

\* C35: removeAllHubNotes trashes, in the folders that are not excluded, the
\* documents named folder name, current suffix, digits or nothing, those and
\* no other, and changes no other document; removeAllHubLinks trashes none.
C35_RemoveHubsRemovesHubs ==
    /\ (AllIdle /\ log.kind = "CmdRemoveHubs") =>
            \A x \in DOMAIN files :
                IF NamedAsHub(probe.before[x]) THEN files[x].state = "dead"
                ELSE files[x] = probe.before[x]
    /\ log.kind = "CmdRemoveHubs" =>
            \A x \in DOMAIN files : ~NamedAsHub(probe.before[x]) => files[x] = probe.before[x]
    /\ log.kind = "CmdRemoveLinks" =>
            \A x \in DOMAIN files : files[x].state = probe.before[x].state

\* the hubs are removed: X_12 of the folder X is trashed, X_1a is kept
C35_Witness ==
    /\ AllIdle
    /\ log.kind = "CmdRemoveHubs"
    /\ \E x, y \in DOMAIN files :
        /\ files[x].state = "dead"
        /\ probe.before[x].base = <<"X", "_", "1", "2">>
        /\ files[y].state = "live"
        /\ files[y].folder = 1
        /\ files[y].base = <<"X", "_", "1", "a">>

\* C36: buildHubContent and upsertHubLinkInNote agree on the content of a
\* hub: the link refresh run after the rebuild writes no hub, and the rebuild
\* run after that writes nothing, with parentLinkForSubfolderHubs on or off.
C36_PassesAgreeOnHubs ==
    /\ probe.ran = 2 =>
            \A x \in DOMAIN files : isHubNote(World, x) => files[x] = probe.before[x]
    /\ probe.ran = 3 => (files = probe.before /\ log.writes \subseteq {"config"})

\* C37: no operation of the engine changes the content of a document that is
\* under an excluded folder: across every step, a document that is and stays
\* in an excluded folder keeps its content.
C37_ExcludedDocumentsUnwritten ==
    [][\A x \in DOMAIN files :
          (/\ files[x].state = "live"
           /\ files'[x].state = "live"
           /\ files[x].folder # 0
           /\ files'[x].folder = files[x].folder
           /\ SkipFolder(World, files[x].folder))
              => files'[x].content = files[x].content]_vars

\* C38: when getCorrectHubLinkForNote returns null for a document (directly
\* under the root or in an excluded folder) and the document does not begin
\* with a hub-link line, upsertHubLinkInNote leaves the content as it was, a
\* first line "---" and leading blank lines included.
C38_NoWriteWithoutLink ==
    (NoteOutside /\ Upserted(1) /\ ~isHubLinkLine(probe.before[1], settings))
        => Document = probe.before

\* the two values the gate of the incremental handlers reads
GateOf(s) == <<s.realTimeUpdating, s.autoCreateSuppressedUntilBuildRefresh>>

\* C39: the realTimeUpdating and autoCreateSuppressedUntilBuildRefresh that
\* the handlers' gate reads are at every moment those of plugin.settings, the
\* object the commands and the settings tab last wrote, also after a restore
\* to default; so a handler invoked while the flag of plugin.settings is set
\* starts no task and writes nothing.
C39_GateReadsCurrentSettings ==
    /\ [](GateOf(probe.registered) = GateOf(settings))
    /\ [][(Suppressed /\ probe'.left < probe.left) =>
              (tasks' = tasks /\ log'.writes = {})]_vars

=========================================================================
